---- MODULE Spec2Model ----
(***************************************************************************)
(* The room manager and the connection record of the gateway               *)
(* (internal/room), with the tasks that call them.                         *)
(*                                                                         *)
(* Every sync.Map operation, every critical section of Connection.mu and   *)
(* every channel operation is one step of the calling task, so that the    *)
(* interleavings of the model are those of the goroutines.  The updates   *)
(* of totalRooms and of the RoomsTotal gauge commute with every other      *)
(* step and are read only between operations; they are taken together     *)
(* with the sync.Map step that precedes them in the code.                  *)
(***************************************************************************)
EXTENDS Integers, Sequences, FiniteSets, TLC

(* ------------------------------ bounds -------------------------------- *)

\* capacity of the outbound channel (make(chan []byte, 256) in the source)
QueueCap == 1

\* number of manager operations the sessions start in one behaviour
MaxOps == 4

\* number of operations the tasks start in one behaviour with fan-out
MaxCalls == 3

\* ws.max_connections (10000 by default in the source)
MaxConnections == 1

\* number of operations the tasks start in one behaviour of sessions and bus events
MaxCasts == 4

(* ------------------------------ universe ------------------------------ *)

ConnIds == {"c1", "c2", "c3"}

Procs == {"p1", "p2"}

Msgs == {"m1", "m2"}

\* arguments NewConnection is called with, per connection
UserID(c) == IF c = "c3" THEN "u2" ELSE "u1"

BrandID(c) == IF c = "c3" THEN "" ELSE "b1"

Type(c) == "customer"

UserIds == {UserID(c) : c \in ConnIds}

\* rooms a client names in join/leave frames
ClientRooms == {"chat:7", "brand:b1"}

NoConn == "none"

NoRoom == "none"

NoBucket == 0

\* joinDefaultRooms: the rooms NewConnection puts in conn.Rooms
joinDefaultRooms(c) ==
    {"user:" \o UserID(c)}
      \cup (IF BrandID(c) # "" THEN {"brand:" \o BrandID(c)} ELSE {})
      \cup (IF Type(c) = "cskh"
              THEN {"folder:" \o BrandID(c) \o ":all",
                    "folder:" \o BrandID(c) \o ":waiting",
                    "folder:" \o BrandID(c) \o ":active"}
              ELSE {})

RoomNames == ClientRooms \cup UNION {joinDefaultRooms(c) : c \in ConnIds}

\* addresses of the per-room sync.Map buckets
BucketIds == 1 .. (Cardinality(RoomNames) + Cardinality(Procs))

MetricNames ==
    {"ConnectionsTotal", "ConnectionsCurrent", "RoomsTotal", "MessagesReceived",
     "MessagesSent", "MessagesFromNATS", "MessageLatency", "ErrorsTotal",
     "AuthSuccess", "AuthFailure"}

(* ------------------------------ state --------------------------------- *)

VARIABLES
    connections,       \* Manager.connections: the keys of C
    userConnections,   \* Manager.userConnections: user id -> set of conn ids
    rooms,             \* Manager.rooms: room -> address of its bucket
    buckets,           \* the buckets: address -> set of conn ids
    totalConnections,  \* Manager.totalConnections
    totalRooms,        \* Manager.totalRooms
    metrics,           \* the Prometheus counters and gauges
    Rooms,             \* Connection.Rooms
    closed,            \* Connection.closed
    send,              \* Connection.send: the frames buffered in the channel
    sendClosed,        \* whether close(c.send) has been executed
    writer,            \* the writeLoop goroutine of each connection
    life,              \* where each connection is in its life
    pc,                \* each task's position
    loc,               \* each task's operation, arguments and locals
    ops,               \* number of operations started
    wire,              \* the frames written on each session's socket
    sock,              \* each session's socket
    bus,               \* the calls of the bus publisher
    hist,              \* what an observer noted before a round trip
    cfg,               \* the configuration the server was built with
    stage,             \* where each session's handler is after registering
    sub                \* the bus subscriber: its message and the acks of each pull

mgrVars == <<connections, userConnections, rooms, buckets, totalConnections,
             totalRooms, metrics>>

connVars == <<Rooms, closed, send, sendClosed>>

outVars == <<wire, sock, bus, hist, cfg, stage, sub>>

vars == <<connections, userConnections, rooms, buckets, totalConnections,
          totalRooms, metrics, Rooms, closed, send, sendClosed, writer, life,
          pc, loc, ops, wire, sock, bus, hist, cfg, sub, stage>>

(* ------------------------------ helpers ------------------------------- *)

EmptyMap == [x \in {} |-> x]

\* sync.Map.Store on a map of the model
Put(f, k, v) == [x \in (DOMAIN f) \cup {k} |-> IF x = k THEN v ELSE f[x]]

\* sync.Map.Delete on a map of the model
Del(f, k) == [x \in (DOMAIN f) \ {k} |-> f[x]]

Bump(m, name, d) == [m EXCEPT ![name] = @ + d]

\* an addToRoom that obtains the bucket and stores nothing in it
BucketStoreNothing(bk, b, c) == bk

\* roomConns.Store(conn.ID, conn) on the bucket at address b
BucketStore(bk, b, c) == [bk EXCEPT ![b] = @ \cup {c}]

\* roomConns.Delete(connID) on the bucket at address b
BucketDelete(bk, b, c) == [bk EXCEPT ![b] = @ \ {c}]

\* a removeFromRoom that keeps the key of a room it found empty
RoomsDeleteNothing(rm, r) == rm

\* m.rooms.Delete(roomID)
RoomsDelete(rm, r) == Del(rm, r)

IdleLoc ==
    [op |-> "none", conn |-> NoConn, room |-> NoRoom, user |-> "none",
     msg |-> "none", excl |-> NoConn, todo |-> {}, ref |-> NoBucket,
     loaded |-> FALSE, snap |-> {}, list |-> <<>>, count |-> 0,
     ret |-> "none", path |-> "none", dup |-> FALSE,
     pre |-> {}, offered |-> [c \in ConnIds |-> 0], acc |-> 0]

\* the locals of a task whose operation has returned r along path
\* (a broadcast returns "int": the number in count)
Returned(l, r, path) ==
    [IdleLoc EXCEPT !.op = l.op, !.conn = l.conn, !.room = l.room,
                    !.user = l.user, !.msg = l.msg, !.excl = l.excl,
                    !.dup = l.dup, !.count = l.count, !.ret = r, !.path = path,
                    !.pre = l.pre, !.offered = l.offered,
                    !.acc = l.acc]

\* buckets some map entry or some task's local still points to
Live(rm, lc) == {rm[r] : r \in DOMAIN rm} \cup {lc[q].ref : q \in Procs}

\* &sync.Map{}: the address of a new bucket
NewBucket ==
    CHOOSE b \in BucketIds :
        /\ b \notin Live(rooms, loc)
        /\ \A b2 \in BucketIds : b2 \notin Live(rooms, loc) => b <= b2

\* the heap after a step: buckets nothing points to are gone
Collect(bk, rm, lc) ==
    [b \in BucketIds |-> IF b \in Live(rm, lc) THEN bk[b] ELSE {}]

\* task q is inside an operation
Busy(q) == pc[q] \notin {"idle", "ret", "panicked"}

\* no operation is in progress
Quiescent == \A q \in Procs : ~Busy(q)

\* the operations a session performs on its own connection
MgrOps == {"AddConnection", "RemoveConnection", "JoinRoom", "LeaveRoom", "Send"}

\* values of jwt.allowed_issuers: not configured, or the one issuer
IssuerLists == {{}, {"attchat"}}

\* the validator settings: jwt.validate_exp and jwt.allowed_issuers
Cfgs == [validateExp : BOOLEAN, allowedIssuers : IssuerLists]

\* viper.SetDefault("jwt.validate_exp", true), ("jwt.allowed_issuers", {"attchat"})
DefaultCfg == [validateExp |-> TRUE, allowedIssuers |-> {"attchat"}]

\* R as the claims read it: room -> the set of its members
RView == [r \in DOMAIN rooms |-> buckets[rooms[r]]]

\* the observer has noted nothing
NoHist ==
    [kind |-> "none", at |-> 0, conn |-> NoConn, room |-> NoRoom,
     C |-> {}, U |-> EmptyMap, R |-> EmptyMap, Rooms |-> {},
     roomsGauge |-> 0, connsGauge |-> 0]

(* ------------------------------ Init ---------------------------------- *)

Start ==
    /\ connections = {}
    /\ userConnections = EmptyMap
    /\ rooms = EmptyMap
    /\ buckets = [b \in BucketIds |-> {}]
    /\ totalConnections = 0
    /\ totalRooms = 0
    /\ metrics = [n \in MetricNames |-> 0]
    /\ Rooms = [c \in ConnIds |-> joinDefaultRooms(c)]
    /\ closed = [c \in ConnIds |-> FALSE]
    /\ send = [c \in ConnIds |-> <<>>]
    /\ sendClosed = [c \in ConnIds |-> FALSE]
    /\ writer = [c \in ConnIds |-> "none"]
    /\ life = [c \in ConnIds |-> "new"]
    /\ pc = [p \in Procs |-> "idle"]
    /\ loc = [p \in Procs |-> IdleLoc]
    /\ ops = 0
    /\ wire = [c \in ConnIds |-> <<>>]
    /\ sock = [c \in ConnIds |-> "open"]
    /\ bus = <<>>
    /\ hist = NoHist
    /\ stage = [c \in ConnIds |-> "start"]
    /\ sub = [at |-> "idle", cur |-> "none", acks |-> <<>>]

\* the server built with the default configuration
Init == Start /\ cfg = DefaultCfg

\* the server built with any configuration of the validator
GateInit == Start /\ cfg \in Cfgs

(* ------------------- Manager.addToRoom (manager.go:139) ---------------- *)

\* where the caller of addToRoom / removeFromRoom goes on
AfterRoom(l, todo) ==
    IF l.op = "AddConnection"
      THEN (IF todo = {} THEN "add_stats" ELSE "atr_los")
      ELSE IF l.op = "RemoveConnection"
        THEN (IF todo = {} THEN "rm_user" ELSE "rfr_load")
        ELSE "ret"

\* the room of this call: the next one of the range over conn.Rooms, or the argument
RoomOfCall(l) ==
    IF l.op \in {"AddConnection", "RemoveConnection"} THEN l.todo ELSE {l.room}

\* m.rooms.LoadOrStore(roomID, &sync.Map{})
atr_los(p) ==
    /\ pc[p] = "atr_los"
    /\ \E r \in RoomOfCall(loc[p]) :
         LET l == loc[p]
             isNew == r \notin DOMAIN rooms
             b == IF isNew THEN NewBucket ELSE rooms[r]
         IN  /\ rooms' = IF isNew THEN Put(rooms, r, b) ELSE rooms
             /\ buckets' = IF isNew THEN [buckets EXCEPT ![b] = {}] ELSE buckets
             /\ loc' = [loc EXCEPT ![p] = [l EXCEPT !.room = r, !.ref = b,
                                                     !.loaded = ~isNew,
                                                     !.todo = l.todo \ {r}]]
    /\ pc' = [pc EXCEPT ![p] = "atr_store"]
    /\ UNCHANGED <<connections, userConnections, totalConnections, totalRooms,
                   metrics, connVars, writer, life, ops, outVars>>

\* roomConns.Store(conn.ID, conn); if !loaded { totalRooms++, RoomsTotal.Inc() }
atr_store(p) ==
    /\ pc[p] = "atr_store"
    /\ LET l == loc[p]
           nl == IF AfterRoom(l, l.todo) = "ret"
                   THEN Returned(l, "void", "joined")
                   ELSE [l EXCEPT !.ref = NoBucket, !.loaded = FALSE]
           nloc == [loc EXCEPT ![p] = nl]
       IN  /\ buckets' = Collect(BucketStore(buckets, l.ref, l.conn),
                                 rooms, nloc)
           /\ totalRooms' = IF l.loaded THEN totalRooms ELSE totalRooms + 1
           /\ metrics' = IF l.loaded THEN metrics ELSE Bump(metrics, "RoomsTotal", 1)
           /\ loc' = nloc
           /\ pc' = [pc EXCEPT ![p] = AfterRoom(l, l.todo)]
    /\ UNCHANGED <<connections, userConnections, rooms, totalConnections,
                   connVars, writer, life, ops, outVars>>

(* ----------------- Manager.removeFromRoom (manager.go:150) -------------- *)

\* the caller's locals when removeFromRoom has returned
LeftRoom(l) ==
    IF AfterRoom(l, l.todo) = "ret"
      THEN Returned(l, "void", "left")
      ELSE [l EXCEPT !.ref = NoBucket, !.snap = {}]

\* m.rooms.Load(roomID)
rfr_load(p) ==
    /\ pc[p] = "rfr_load"
    /\ \E r \in RoomOfCall(loc[p]) :
         LET l == [loc[p] EXCEPT !.room = r, !.todo = loc[p].todo \ {r}]
         IN  IF r \in DOMAIN rooms
               THEN /\ loc' = [loc EXCEPT ![p] = [l EXCEPT !.ref = rooms[r]]]
                    /\ pc' = [pc EXCEPT ![p] = "rfr_delete"]
               ELSE /\ loc' = [loc EXCEPT ![p] = LeftRoom(l)]
                    /\ pc' = [pc EXCEPT ![p] = AfterRoom(l, l.todo)]
    /\ UNCHANGED <<mgrVars, connVars, writer, life, ops, outVars>>

\* roomConns.Delete(connID)
rfr_delete(p) ==
    /\ pc[p] = "rfr_delete"
    /\ buckets' = BucketDelete(buckets, loc[p].ref, loc[p].conn)
    /\ pc' = [pc EXCEPT ![p] = "rfr_range"]
    /\ UNCHANGED <<connections, userConnections, rooms, totalConnections,
                   totalRooms, metrics, connVars, writer, life, loc, ops, outVars>>

\* roomConns.Range(...): the keys the traversal will visit
rfr_range(p) ==
    /\ pc[p] = "rfr_range"
    /\ loc' = [loc EXCEPT ![p] = [@ EXCEPT !.snap = buckets[loc[p].ref]]]
    /\ pc' = [pc EXCEPT ![p] =
                IF buckets[loc[p].ref] = {} THEN "rfr_rmkey" ELSE "rfr_visit"]
    /\ UNCHANGED <<mgrVars, connVars, writer, life, ops, outVars>>

\* one entry of the traversal: a live entry makes isEmpty false and stops it
rfr_visit(p) ==
    /\ pc[p] = "rfr_visit"
    /\ \E k \in loc[p].snap :
         LET l == loc[p]
         IN  IF k \in buckets[l.ref]
               THEN LET nloc == [loc EXCEPT ![p] = LeftRoom(l)]
                    IN  /\ loc' = nloc
                        /\ pc' = [pc EXCEPT ![p] = AfterRoom(l, l.todo)]
                        /\ buckets' = Collect(buckets, rooms, nloc)
               ELSE /\ loc' = [loc EXCEPT ![p] = [l EXCEPT !.snap = l.snap \ {k}]]
                    /\ pc' = [pc EXCEPT ![p] =
                                IF l.snap \ {k} = {} THEN "rfr_rmkey" ELSE "rfr_visit"]
                    /\ buckets' = buckets
    /\ UNCHANGED <<connections, userConnections, rooms, totalConnections,
                   totalRooms, metrics, connVars, writer, life, ops, outVars>>

\* isEmpty: m.rooms.Delete(roomID); totalRooms--; RoomsTotal.Dec()
rfr_rmkey(p) ==
    /\ pc[p] = "rfr_rmkey"
    /\ LET l == loc[p]
           nloc == [loc EXCEPT ![p] = LeftRoom(l)]
           nrooms == RoomsDelete(rooms, l.room)
       IN  /\ rooms' = nrooms
           /\ buckets' = Collect(buckets, nrooms, nloc)
           /\ loc' = nloc
           /\ pc' = [pc EXCEPT ![p] = AfterRoom(l, l.todo)]
    /\ totalRooms' = totalRooms - 1
    /\ metrics' = Bump(metrics, "RoomsTotal", -1)
    /\ UNCHANGED <<connections, userConnections, totalConnections, connVars,
                   writer, life, ops, outVars>>

(* ------------------- Manager.AddConnection (manager.go:33) ------------- *)

\* m.connections.Store(conn.ID, conn)
AddConnection(p, c) ==
    /\ pc[p] = "idle"
    /\ life[c] \in {"new", "authed"}
    /\ connections' = connections \cup {c}
    /\ life' = [life EXCEPT ![c] = "attaching"]
    /\ loc' = [loc EXCEPT ![p] = [IdleLoc EXCEPT !.op = "AddConnection",
                                                  !.conn = c, !.user = UserID(c)]]
    /\ pc' = [pc EXCEPT ![p] = "add_user_los"]
    /\ ops' = ops + 1
    /\ UNCHANGED <<userConnections, rooms, buckets, totalConnections, totalRooms,
                   metrics, connVars, writer, outVars>>

\* m.userConnections.LoadOrStore(conn.UserID, &sync.Map{})
add_user_los(p) ==
    /\ pc[p] = "add_user_los"
    /\ userConnections' = IF loc[p].user \in DOMAIN userConnections
                            THEN userConnections
                            ELSE Put(userConnections, loc[p].user, {})
    /\ pc' = [pc EXCEPT ![p] = "add_user_store"]
    /\ UNCHANGED <<connections, rooms, buckets, totalConnections, totalRooms,
                   metrics, connVars, writer, life, loc, ops, outVars>>

\* userConns.Store(conn.ID, conn), then the range over conn.Rooms begins
add_user_store(p) ==
    /\ pc[p] = "add_user_store"
    /\ userConnections' = [userConnections EXCEPT ![loc[p].user] = @ \cup {loc[p].conn}]
    /\ loc' = [loc EXCEPT ![p] = [@ EXCEPT !.todo = Rooms[loc[p].conn]]]
    /\ pc' = [pc EXCEPT ![p] =
                IF Rooms[loc[p].conn] = {} THEN "add_stats" ELSE "atr_los"]
    /\ UNCHANGED <<connections, rooms, buckets, totalConnections, totalRooms,
                   metrics, connVars, writer, life, ops, outVars>>

\* totalConnections++; ConnectionsTotal.Inc(); ConnectionsCurrent.Inc()
add_stats(p) ==
    /\ pc[p] = "add_stats"
    /\ totalConnections' = totalConnections + 1
    /\ metrics' = Bump(Bump(metrics, "ConnectionsTotal", 1), "ConnectionsCurrent", 1)
    /\ loc' = [loc EXCEPT ![p] = Returned(loc[p], "void", "added")]
    /\ pc' = [pc EXCEPT ![p] = "ret"]
    /\ life' = [life EXCEPT ![loc[p].conn] = "attached"]
    /\ UNCHANGED <<connections, userConnections, rooms, buckets, totalRooms,
                   connVars, writer, ops, outVars>>

(* ------------------ Connection.Close (connection.go:155) --------------- *)

\* the state of the connection after c.mu.Lock(); if !c.closed {...}; Unlock()
CloseLatch(c) == [closed EXCEPT ![c] = TRUE]

CloseChannel(c) == [sendClosed EXCEPT ![c] = TRUE]

\* a Close without the `if !c.closed` test: every call closes the channel
ClosePanicsUnlatched(c) == sendClosed[c]

\* close(c.send) on a channel that is already closed panics
ClosePanics(c) == ~closed[c] /\ sendClosed[c]

(* ----------------- Manager.RemoveConnection (manager.go:61) ------------- *)

\* a RemoveConnection that leaves only the rooms joined at AddConnection
RoomsToLeaveDefault(c) == joinDefaultRooms(c)

\* for room := range conn.Rooms: the rooms RemoveConnection takes the connection out of
RoomsToLeave(c) == Rooms[c]

\* m.connections.Load(connID); the range over conn.Rooms begins
RemoveConnection(p, c) ==
    /\ pc[p] = "idle"
    /\ LET l == [IdleLoc EXCEPT !.op = "RemoveConnection", !.conn = c,
                                !.user = UserID(c),
                                !.dup = (c \notin connections) \/
                                        (\E q \in Procs : Busy(q) /\
                                            loc[q].op = "RemoveConnection" /\
                                            loc[q].conn = c)]
       IN  IF c \in connections
             THEN /\ loc' = [loc EXCEPT ![p] = [l EXCEPT !.todo = RoomsToLeave(c)]]
                  /\ pc' = [pc EXCEPT ![p] =
                              IF RoomsToLeave(c) = {} THEN "rm_user" ELSE "rfr_load"]
             ELSE /\ loc' = [loc EXCEPT ![p] = Returned(l, "void", "absent")]
                  /\ pc' = [pc EXCEPT ![p] = "ret"]
    /\ ops' = ops + 1
    /\ UNCHANGED <<mgrVars, connVars, writer, life, outVars>>

\* m.userConnections.Load(conn.UserID); userConns.Delete(connID)
rm_user(p) ==
    /\ pc[p] = "rm_user"
    /\ userConnections' = IF loc[p].user \in DOMAIN userConnections
                            THEN [userConnections EXCEPT ![loc[p].user] = @ \ {loc[p].conn}]
                            ELSE userConnections
    /\ pc' = [pc EXCEPT ![p] = "rm_delete"]
    /\ UNCHANGED <<connections, rooms, buckets, totalConnections, totalRooms,
                   metrics, connVars, writer, life, loc, ops, outVars>>

\* m.connections.Delete(connID)
rm_delete(p) ==
    /\ pc[p] = "rm_delete"
    /\ connections' = connections \ {loc[p].conn}
    /\ pc' = [pc EXCEPT ![p] = "rm_close"]
    /\ UNCHANGED <<userConnections, rooms, buckets, totalConnections, totalRooms,
                   metrics, connVars, writer, life, loc, ops, outVars>>

\* conn.Close()
rm_close(p) ==
    /\ pc[p] = "rm_close"
    /\ IF ClosePanics(loc[p].conn)
         THEN /\ pc' = [pc EXCEPT ![p] = "panicked"]
              /\ UNCHANGED <<closed, sendClosed>>
         ELSE /\ pc' = [pc EXCEPT ![p] = "rm_stats"]
              /\ closed' = CloseLatch(loc[p].conn)
              /\ sendClosed' = CloseChannel(loc[p].conn)
    /\ UNCHANGED <<mgrVars, Rooms, send, writer, life, loc, ops, outVars>>

\* metrics.ConnectionsCurrent.Dec()
rm_stats(p) ==
    /\ pc[p] = "rm_stats"
    /\ metrics' = Bump(metrics, "ConnectionsCurrent", -1)
    /\ loc' = [loc EXCEPT ![p] = Returned(loc[p], "void", "removed")]
    /\ pc' = [pc EXCEPT ![p] = "ret"]
    /\ life' = [life EXCEPT ![loc[p].conn] = "removed"]
    /\ UNCHANGED <<connections, userConnections, rooms, buckets, totalConnections,
                   totalRooms, connVars, writer, ops, outVars>>

(* ------------- Manager.JoinRoom / LeaveRoom (manager.go:117, 128) ------- *)

\* m.GetConnection(connID)
JoinRoom(p, c, r) ==
    /\ pc[p] = "idle"
    /\ LET l == [IdleLoc EXCEPT !.op = "JoinRoom", !.conn = c, !.room = r]
       IN  IF c \in connections
             THEN /\ loc' = [loc EXCEPT ![p] = l]
                  /\ pc' = [pc EXCEPT ![p] = "join_conn"]
             ELSE /\ loc' = [loc EXCEPT ![p] = Returned(l, "void", "absent")]
                  /\ pc' = [pc EXCEPT ![p] = "ret"]
    /\ ops' = ops + 1
    /\ UNCHANGED <<mgrVars, connVars, writer, life, outVars>>

\* conn.JoinRoom(roomID)
join_conn(p) ==
    /\ pc[p] = "join_conn"
    /\ Rooms' = [Rooms EXCEPT ![loc[p].conn] = @ \cup {loc[p].room}]
    /\ pc' = [pc EXCEPT ![p] = "atr_los"]
    /\ UNCHANGED <<mgrVars, closed, send, sendClosed, writer, life, loc, ops, outVars>>

\* m.GetConnection(connID)
LeaveRoom(p, c, r) ==
    /\ pc[p] = "idle"
    /\ LET l == [IdleLoc EXCEPT !.op = "LeaveRoom", !.conn = c, !.room = r]
       IN  IF c \in connections
             THEN /\ loc' = [loc EXCEPT ![p] = l]
                  /\ pc' = [pc EXCEPT ![p] = "leave_conn"]
             ELSE /\ loc' = [loc EXCEPT ![p] = Returned(l, "void", "absent")]
                  /\ pc' = [pc EXCEPT ![p] = "ret"]
    /\ ops' = ops + 1
    /\ UNCHANGED <<mgrVars, connVars, writer, life, outVars>>

\* conn.LeaveRoom(roomID)
leave_conn(p) ==
    /\ pc[p] = "leave_conn"
    /\ Rooms' = [Rooms EXCEPT ![loc[p].conn] = @ \ {loc[p].room}]
    /\ pc' = [pc EXCEPT ![p] = "rfr_load"]
    /\ UNCHANGED <<mgrVars, closed, send, sendClosed, writer, life, loc, ops, outVars>>

(* ------------------- Connection.Send (connection.go:114) --------------- *)

\* a Send without the closed check
SendSeesClosedNever(c) == FALSE

\* c.mu.RLock(); if c.closed { return nil }: Send returns before the select
SendSeesClosed(c) == closed[c]

\* case c.send <- message: a send on a closed channel panics
SendPanics(c) == sendClosed[c]

\* case c.send <- message can proceed: the buffer has room
SendHasRoom(c) == Len(send[c]) < QueueCap

\* a select without the default case: Send waits until the channel can take the frame
SelectReadyNoDefault(c) == sendClosed[c] \/ Len(send[c]) < QueueCap

\* the select has a default case: Send never waits for room in the buffer
SelectReady(c) == TRUE

\* the caller's locals when it calls k.Send: the call is noted in offered
Offer(l, k) == [l EXCEPT !.conn = k, !.offered[k] = @ + 1]

\* the error Send returns, by the path it took
SendResult(path) == "nil"

\* where the caller of Send goes on once Send has returned
AfterSend(l) ==
    IF l.op = "Send" THEN "ret"
    ELSE IF l.op = "BroadcastToRoom"
      THEN (IF l.snap = {} THEN "br_done" ELSE "br_visit")
      ELSE (IF l.list = <<>> THEN "ret" ELSE "bu_next")

\* the caller's locals once Send has returned err along path
SendReturned(l, path) ==
    LET n == IF SendResult(path) = "nil" THEN l.count + 1 ELSE l.count
        a == IF path = "accepted" THEN l.acc + 1 ELSE l.acc
    IN  IF l.op = "Send" THEN Returned([l EXCEPT !.acc = a], SendResult(path), path)
        ELSE IF AfterSend(l) = "ret"
          THEN Returned([l EXCEPT !.count = n, !.acc = a], "int", "sent")
        ELSE [l EXCEPT !.count = n, !.acc = a, !.conn = NoConn]

\* conn.Send(message), called directly (the reader answering its client)
Send(p, c, m) ==
    /\ pc[p] = "idle"
    /\ life[c] \in {"attached", "removed"}
    /\ LET l == [IdleLoc EXCEPT !.op = "Send", !.conn = c, !.msg = m]
       IN  IF SendSeesClosed(c)
             THEN /\ loc' = [loc EXCEPT ![p] = SendReturned(l, "closed")]
                  /\ pc' = [pc EXCEPT ![p] = AfterSend(l)]
             ELSE /\ loc' = [loc EXCEPT ![p] = l]
                  /\ pc' = [pc EXCEPT ![p] = "send_select"]
    /\ ops' = ops + 1
    /\ UNCHANGED <<mgrVars, connVars, writer, life, outVars>>

\* the closed check of a Send called from a broadcast
send_check(p) ==
    /\ pc[p] = "send_check"
    /\ IF SendSeesClosed(loc[p].conn)
         THEN /\ loc' = [loc EXCEPT ![p] = SendReturned(loc[p], "closed")]
              /\ pc' = [pc EXCEPT ![p] = AfterSend(loc[p])]
         ELSE /\ loc' = loc
              /\ pc' = [pc EXCEPT ![p] = "send_select"]
    /\ UNCHANGED <<mgrVars, connVars, writer, life, ops, outVars>>

\* select { case c.send <- message: return nil; default: return nil }
send_select(p) ==
    /\ pc[p] = "send_select"
    /\ SelectReady(loc[p].conn)
    /\ LET l == loc[p]
           c == l.conn
       IN  IF SendPanics(c)
             THEN /\ pc' = [pc EXCEPT ![p] = "panicked"]
                  /\ UNCHANGED <<send, loc>>
             ELSE IF SendHasRoom(c)
               THEN /\ send' = [send EXCEPT ![c] = Append(@, l.msg)]
                    /\ loc' = [loc EXCEPT ![p] = SendReturned(l, "accepted")]
                    /\ pc' = [pc EXCEPT ![p] = AfterSend(l)]
               ELSE /\ send' = send
                    /\ loc' = [loc EXCEPT ![p] = SendReturned(l, "dropped")]
                    /\ pc' = [pc EXCEPT ![p] = AfterSend(l)]
    /\ UNCHANGED <<mgrVars, Rooms, closed, sendClosed, writer, life, ops, outVars>>

(* ----------------- Manager.BroadcastToRoom (manager.go:170) ------------- *)

\* m.rooms.Load(roomID)
BroadcastToRoom(p, r, m, x) ==
    /\ pc[p] = "idle"
    /\ LET l == [IdleLoc EXCEPT !.op = "BroadcastToRoom", !.room = r, !.msg = m,
                                !.excl = x]
       IN  IF r \in DOMAIN rooms
             THEN /\ loc' = [loc EXCEPT ![p] = [l EXCEPT !.ref = rooms[r],
                                                         !.pre = buckets[rooms[r]]]]
                  /\ pc' = [pc EXCEPT ![p] = "br_range"]
             ELSE /\ loc' = [loc EXCEPT ![p] = Returned(l, "int", "absent")]
                  /\ pc' = [pc EXCEPT ![p] = "ret"]
    /\ ops' = ops + 1
    /\ UNCHANGED <<mgrVars, connVars, writer, life, outVars>>

\* roomConns.Range(...): the keys the traversal will visit
br_range(p) ==
    /\ pc[p] = "br_range"
    /\ loc' = [loc EXCEPT ![p] = [@ EXCEPT !.snap = buckets[loc[p].ref]]]
    /\ pc' = [pc EXCEPT ![p] =
                IF buckets[loc[p].ref] = {} THEN "br_done" ELSE "br_visit"]
    /\ UNCHANGED <<mgrVars, connVars, writer, life, ops, outVars>>

\* one entry of the traversal: skipped when deleted meanwhile or excluded
br_visit(p) ==
    /\ pc[p] = "br_visit"
    /\ \E k \in loc[p].snap :
         LET l == [loc[p] EXCEPT !.snap = loc[p].snap \ {k}]
         IN  IF k \in buckets[l.ref] /\ k # l.excl
               THEN /\ loc' = [loc EXCEPT ![p] = Offer(l, k)]
                    /\ pc' = [pc EXCEPT ![p] = "send_check"]
               ELSE /\ loc' = [loc EXCEPT ![p] = l]
                    /\ pc' = [pc EXCEPT ![p] =
                                IF l.snap = {} THEN "br_done" ELSE "br_visit"]
    /\ UNCHANGED <<mgrVars, connVars, writer, life, ops, outVars>>

\* metrics.MessagesSent.Add(float64(count)); return count
br_done(p) ==
    /\ pc[p] = "br_done"
    /\ LET nloc == [loc EXCEPT ![p] = Returned(loc[p], "int", "sent")]
       IN  /\ loc' = nloc
           /\ buckets' = Collect(buckets, rooms, nloc)
    /\ metrics' = Bump(metrics, "MessagesSent", loc[p].count)
    /\ pc' = [pc EXCEPT ![p] = "ret"]
    /\ UNCHANGED <<connections, userConnections, rooms, totalConnections,
                   totalRooms, connVars, writer, life, ops, outVars>>

(* ----------------- Manager.BroadcastToUser (manager.go:194) ------------- *)

\* GetUserConnections: m.userConnections.Load(userID)
BroadcastToUser(p, u, m, x) ==
    /\ pc[p] = "idle"
    /\ LET l == [IdleLoc EXCEPT !.op = "BroadcastToUser", !.user = u, !.msg = m,
                                !.excl = x]
       IN  IF u \in DOMAIN userConnections
             THEN /\ loc' = [loc EXCEPT ![p] = [l EXCEPT !.pre = userConnections[u]]]
                  /\ pc' = [pc EXCEPT ![p] = "bu_range"]
             ELSE /\ loc' = [loc EXCEPT ![p] = Returned(l, "int", "absent")]
                  /\ pc' = [pc EXCEPT ![p] = "ret"]
    /\ ops' = ops + 1
    /\ UNCHANGED <<mgrVars, connVars, writer, life, outVars>>

\* userConns.Range(...): the keys the traversal will visit
bu_range(p) ==
    /\ pc[p] = "bu_range"
    /\ loc' = [loc EXCEPT ![p] = IF userConnections[loc[p].user] = {}
                                   THEN Returned(loc[p], "int", "sent")
                                   ELSE [@ EXCEPT !.snap = userConnections[loc[p].user]]]
    /\ pc' = [pc EXCEPT ![p] =
                IF userConnections[loc[p].user] = {} THEN "ret" ELSE "bu_visit"]
    /\ UNCHANGED <<mgrVars, connVars, writer, life, ops, outVars>>

\* one entry of the traversal: connections = append(connections, value)
bu_visit(p) ==
    /\ pc[p] = "bu_visit"
    /\ \E k \in loc[p].snap :
         LET l0 == loc[p]
             lst == IF k \in userConnections[l0.user] THEN Append(l0.list, k)
                                                      ELSE l0.list
             l == [l0 EXCEPT !.snap = l0.snap \ {k}, !.list = lst]
         IN  /\ loc' = [loc EXCEPT ![p] = IF l.snap = {} /\ lst = <<>>
                                            THEN Returned(l, "int", "sent") ELSE l]
             /\ pc' = [pc EXCEPT ![p] =
                         IF l.snap # {} THEN "bu_visit"
                         ELSE IF lst = <<>> THEN "ret" ELSE "bu_next"]
    /\ UNCHANGED <<mgrVars, connVars, writer, life, ops, outVars>>

\* for _, conn := range connections: the excluded one is skipped, the others sent to
bu_next(p) ==
    /\ pc[p] = "bu_next"
    /\ LET l0 == loc[p]
           k == Head(l0.list)
           l == [l0 EXCEPT !.list = Tail(l0.list)]
       IN  IF k = l.excl
             THEN /\ loc' = [loc EXCEPT ![p] = IF l.list = <<>>
                                                 THEN Returned(l, "int", "sent")
                                                 ELSE l]
                  /\ pc' = [pc EXCEPT ![p] = IF l.list = <<>> THEN "ret" ELSE "bu_next"]
                  /\ UNCHANGED <<closed, send>>
             ELSE IF SendSeesClosed(k)
               THEN /\ loc' = [loc EXCEPT ![p] = SendReturned(Offer(l, k), "closed")]
                    /\ pc' = [pc EXCEPT ![p] = AfterSend(l)]
                    /\ UNCHANGED <<closed, send>>
               ELSE /\ loc' = [loc EXCEPT ![p] = Offer(l, k)]
                    /\ pc' = [pc EXCEPT ![p] = "send_select"]
                    /\ UNCHANGED <<closed, send>>
    /\ UNCHANGED <<mgrVars, Rooms, sendClosed, writer, life, ops, outVars>>

(* ---------------- Server.handleClientMessage (server.go:466) ----------- *)

\* the typing frame built for sender c: its payload names c's user and type
TypingFrame(c) == "typing:" \o UserID(c) \o ":" \o Type(c)

\* the connection a typing broadcast leaves out: the sender
TypingExclude(c) == c

\* case "typing": with a room, BroadcastToRoom(msg.Room, data, conn.ID)
Typing(p, c, r) ==
    /\ life[c] = "attached"
    /\ IF r # ""
         THEN BroadcastToRoom(p, r, TypingFrame(c), TypingExclude(c))
         ELSE /\ pc[p] = "idle"
              /\ loc' = [loc EXCEPT ![p] =
                           Returned([IdleLoc EXCEPT !.op = "Typing", !.room = r],
                                    "void", "noroom")]
              /\ pc' = [pc EXCEPT ![p] = "ret"]
              /\ ops' = ops + 1
              /\ UNCHANGED <<mgrVars, connVars, writer, life, outVars>>

\* an envelope that does not name the sending connection
EventNoExclude(c, t, r, pl) ==
    [type |-> t, room |-> r, user_id |-> UserID(c), brand_id |-> BrandID(c),
     payload |-> pl, exclude_conn_id |-> ""]

\* the envelope of a forwarded client frame
Event(c, t, r, pl) ==
    [type |-> t, room |-> r, user_id |-> UserID(c), brand_id |-> BrandID(c),
     payload |-> pl, exclude_conn_id |-> c]

\* the subject every forwarded frame is published to
Subject == "CHAT.events"

\* default: a frame of any other type goes to the bus publisher, when there is
\* one; nats says whether s.nats is nil, and whether Publish returns an error
Forward(p, c, t, r, pl, nats) ==
    /\ pc[p] = "idle"
    /\ life[c] = "attached"
    /\ t \notin {"ping", "join", "leave", "typing"}
    /\ bus' = IF nats = "nil" THEN bus
              ELSE Append(bus, [subject |-> Subject, data |-> Event(c, t, r, pl),
                                ok |-> (nats = "ok")])
    /\ loc' = [loc EXCEPT ![p] =
                 Returned([IdleLoc EXCEPT !.op = "Forward", !.conn = c, !.room = r,
                                          !.msg = t],
                          "void", nats)]
    /\ pc' = [pc EXCEPT ![p] = "ret"]
    /\ ops' = ops + 1
    /\ UNCHANGED <<mgrVars, connVars, writer, life, wire, sock, hist, cfg, sub, stage>>

(* ------- Server.handleWebSocket (server.go:185), auth/jwt.go:60 -------- *)

\* the signing algorithms a token's header can name
Algs == {"RS256", "HS256", "none"}

\* what a well-formed token carries: its algorithm (the signature is a good
\* one for that algorithm), whether exp is past, and the user_id and iss claims
TokenClaims == [alg : Algs, exp : {"past", "future"}, uid : {0, 7},
                iss : {"attchat", "other"}]

\* the token string carrying f
Token(f) == f.alg \o "." \o f.exp \o "." \o ToString(f.uid) \o "." \o f.iss

\* the tokens a client presents: none, an unparsable one, and well-formed ones
Tokens == {"", "garbage"} \cup {Token(f) : f \in TokenClaims}

\* the token has the three-part form the parser can decode
WellFormed(t) == \E f \in TokenClaims : Token(f) = t

\* header and claims of a well-formed token
Decoded(t) == CHOOSE f \in TokenClaims : Token(f) = t

\* a key function that hands out the key whatever the signing method
ParsesAnyAlg(t) == WellFormed(t)

\* the key function accepts only *jwt.SigningMethodRSA; ParseWithClaims then
\* verifies the signature with the public key
Parses(t) == WellFormed(t) /\ Decoded(t).alg = "RS256"

\* the token's exp claim lies in the past
Expired(t) == Decoded(t).exp = "past"

\* claims.UserID
TokenUserID(t) == Decoded(t).uid

\* claims.Issuer
TokenIssuer(t) == Decoded(t).iss

\* a Validate that checks the issuer before the user_id
ValidateIssuerFirst(t, vexp, issuers) ==
    IF ~Parses(t) THEN "ErrInvalidToken"
    ELSE IF Expired(t) THEN "ErrExpiredToken"
    ELSE IF issuers # {} /\ TokenIssuer(t) \notin issuers THEN "ErrInvalidClaims"
    ELSE IF TokenUserID(t) = 0 THEN "ErrMissingUserID"
    ELSE "ok"

\* a Validate that does not look at claims.UserID
ValidateAnyUser(t, vexp, issuers) ==
    IF ~Parses(t) THEN "ErrInvalidToken"
    ELSE IF Expired(t) THEN "ErrExpiredToken"
    ELSE IF issuers # {} /\ TokenIssuer(t) \notin issuers THEN "ErrInvalidClaims"
    ELSE "ok"

\* JWTValidator.Validate: the error it returns, or "ok"
Validate(t, vexp, issuers) ==
    IF ~Parses(t) THEN "ErrInvalidToken"
    ELSE IF Expired(t) THEN "ErrExpiredToken"
    ELSE IF TokenUserID(t) = 0 THEN "ErrMissingUserID"
    ELSE IF vexp /\ Expired(t) THEN "ErrExpiredToken"
    ELSE IF issuers # {} /\ TokenIssuer(t) \notin issuers THEN "ErrInvalidClaims"
    ELSE "ok"

\* ServerMessage{Type: "error", Payload: {"code": "AUTH_FAILED", ...}}
AuthFailedFrame == "error:AUTH_FAILED"

\* the upgraded socket of session c reaches handleWebSocket with token t; on a
\* validation error the handler counts it, writes the error frame (wok: the
\* write reaches the socket) and closes the socket; otherwise it counts the
\* success and goes on to create and register the connection
handleWebSocket(p, c, t, wok) ==
    /\ pc[p] = "idle"
    /\ life[c] = "new"
    /\ LET err == Validate(t, cfg.validateExp, cfg.allowedIssuers)
           l == [IdleLoc EXCEPT !.op = "handleWebSocket", !.conn = c, !.msg = t]
       IN  IF err # "ok"
             THEN /\ metrics' = Bump(metrics, "AuthFailure", 1)
                  /\ wire' = [wire EXCEPT ![c] =
                                IF wok THEN Append(@, AuthFailedFrame) ELSE @]
                  /\ sock' = [sock EXCEPT ![c] = "closed"]
                  /\ life' = [life EXCEPT ![c] = "refused"]
                  /\ loc' = [loc EXCEPT ![p] =
                               Returned([l EXCEPT !.count = 1,
                                                  !.acc = IF wok THEN 1 ELSE 0],
                                        "void", err)]
             ELSE /\ metrics' = Bump(metrics, "AuthSuccess", 1)
                  /\ life' = [life EXCEPT ![c] = "authed"]
                  /\ loc' = [loc EXCEPT ![p] = Returned(l, "void", "ok")]
                  /\ UNCHANGED <<wire, sock>>
    /\ pc' = [pc EXCEPT ![p] = "ret"]
    /\ ops' = ops + 1
    /\ UNCHANGED <<connections, userConnections, rooms, buckets, totalConnections,
                   totalRooms, connVars, writer, bus, hist, cfg, sub, stage>>

(* --------------------- Server.writeLoop (server.go:437) ---------------- *)

\* go s.writeLoop(conn)
WriterStart(c) ==
    /\ life[c] = "attached"
    /\ writer[c] = "none"
    /\ writer' = [writer EXCEPT ![c] = "running"]
    /\ UNCHANGED <<mgrVars, connVars, life, pc, loc, ops, outVars>>

\* a socket on which the newest frame overtakes the ones written before
WriteMessageFirst(w, m) == <<m>> \o w

\* conn.Conn.WriteMessage(websocket.TextMessage, msg): the frame follows the
\* ones written before
WriteMessage(w, m) == Append(w, m)

\* case msg, ok := <-conn.SendChannel(): WriteMessage succeeds or fails
WriterWrite(c) ==
    /\ writer[c] = "running"
    /\ send[c] # <<>>
    /\ send' = [send EXCEPT ![c] = Tail(@)]
    /\ \E ok \in BOOLEAN :
         /\ ok => sock[c] = "open"
         /\ writer' = [writer EXCEPT ![c] = IF ok THEN "running" ELSE "exited"]
         /\ wire' = [wire EXCEPT ![c] = IF ok THEN WriteMessage(@, Head(send[c])) ELSE @]
    /\ UNCHANGED <<mgrVars, Rooms, closed, sendClosed, life, pc, loc, ops,
                   sock, bus, hist, cfg, sub, stage>>

\* !ok: the channel is closed and drained; or the keep-alive ping fails
WriterExit(c) ==
    /\ writer[c] = "running"
    /\ writer' = [writer EXCEPT ![c] = "exited"]
    /\ UNCHANGED <<mgrVars, connVars, life, pc, loc, ops, outVars>>

(* ------------------------- the calling tasks --------------------------- *)

\* the caller takes the result and goes on
Return(p) ==
    /\ pc[p] = "ret"
    /\ pc' = [pc EXCEPT ![p] = "idle"]
    /\ loc' = [loc EXCEPT ![p] = IdleLoc]
    /\ UNCHANGED <<mgrVars, connVars, writer, life, ops, outVars>>

\* a step inside AddConnection or RemoveConnection (with addToRoom, removeFromRoom)
AttachStep(p) ==
    \/ add_user_los(p) \/ add_user_store(p) \/ add_stats(p)
    \/ atr_los(p) \/ atr_store(p)
    \/ rfr_load(p) \/ rfr_delete(p) \/ rfr_range(p) \/ rfr_visit(p) \/ rfr_rmkey(p)
    \/ rm_user(p) \/ rm_delete(p) \/ rm_close(p) \/ rm_stats(p)

\* a step inside a manager operation
MgrStep(p) == AttachStep(p) \/ join_conn(p) \/ leave_conn(p)

\* the operations on one connection are issued by its session, one at a time
OwnConn(p, c) ==
    \A q \in Procs \ {p} : ~(Busy(q) /\ loc[q].conn = c /\ loc[q].op \in MgrOps)

\* no other task is inside an operation
Alone(p) == \A q \in Procs \ {p} : pc[q] = "idle"

\* the sessions' manager operations, interleaved step by step
MgrNext ==
    \E p \in Procs :
        \/ \E c \in ConnIds : ops < MaxOps /\ OwnConn(p, c) /\ AddConnection(p, c)
        \/ \E c \in ConnIds : ops < MaxOps /\ OwnConn(p, c) /\ RemoveConnection(p, c)
        \/ \E c \in ConnIds, r \in ClientRooms :
              ops < MaxOps /\ OwnConn(p, c) /\ JoinRoom(p, c, r)
        \/ \E c \in ConnIds, r \in ClientRooms :
              ops < MaxOps /\ OwnConn(p, c) /\ LeaveRoom(p, c, r)
        \/ MgrStep(p)
        \/ Return(p)

MgrSpec == Init /\ [][MgrNext]_vars

\* the same operations, each run to its end before the next begins
SerialNext ==
    \E p \in Procs :
        \/ \E c \in ConnIds : ops < MaxOps /\ Alone(p) /\ AddConnection(p, c)
        \/ \E c \in ConnIds : ops < MaxOps /\ Alone(p) /\ RemoveConnection(p, c)
        \/ \E c \in ConnIds, r \in ClientRooms :
              ops < MaxOps /\ Alone(p) /\ JoinRoom(p, c, r)
        \/ \E c \in ConnIds, r \in ClientRooms :
              ops < MaxOps /\ Alone(p) /\ LeaveRoom(p, c, r)
        \/ MgrStep(p)
        \/ Return(p)

SerialSpec == Init /\ [][SerialNext]_vars

\* as OwnConn, but a RemoveConnection may be issued while another one runs
OwnConnOrRemoving(p, c) ==
    \A q \in Procs \ {p} :
        ~(Busy(q) /\ loc[q].conn = c /\ loc[q].op \in MgrOps \ {"RemoveConnection"})

\* the manager operations, with RemoveConnection callable by any task at any time
ApiNext ==
    \E p \in Procs :
        \/ \E c \in ConnIds : ops < MaxOps /\ OwnConn(p, c) /\ AddConnection(p, c)
        \/ \E c \in ConnIds :
              ops < MaxOps /\ OwnConnOrRemoving(p, c) /\ RemoveConnection(p, c)
        \/ \E c \in ConnIds, r \in ClientRooms :
              ops < MaxOps /\ OwnConn(p, c) /\ JoinRoom(p, c, r)
        \/ \E c \in ConnIds, r \in ClientRooms :
              ops < MaxOps /\ OwnConn(p, c) /\ LeaveRoom(p, c, r)
        \/ MgrStep(p)
        \/ Return(p)

ApiSpec == Init /\ [][ApiNext]_vars

\* an observer notes the maps and gauges before a round trip on conn c:
\* JoinRoom(c, r); LeaveRoom(c, r) on a registered c (kind "join"), or
\* AddConnection(c); RemoveConnection(c) on a c not yet registered (kind "add")
Observe(k, c, r) ==
    /\ hist.kind = "none"
    /\ \A q \in Procs : pc[q] = "idle"
    /\ ops + 2 <= MaxOps
    /\ \/ k = "join" /\ r \in ClientRooms /\ c \in connections
       \/ k = "add" /\ r = NoRoom /\ life[c] = "new"
    /\ hist' = [kind |-> k, at |-> ops, conn |-> c, room |-> r,
                C |-> connections, U |-> userConnections, R |-> RView,
                Rooms |-> Rooms[c],
                roomsGauge |-> metrics["RoomsTotal"],
                connsGauge |-> metrics["ConnectionsCurrent"]]
    /\ UNCHANGED <<mgrVars, connVars, writer, life, pc, loc, ops, wire, sock, bus,
                   cfg, sub, stage>>

\* the operations one at a time, then one observed round trip
RoundNext ==
    \/ \E p \in Procs :
          \/ \E c \in ConnIds :
                hist.kind = "none" /\ ops < MaxOps /\ Alone(p) /\ AddConnection(p, c)
          \/ \E c \in ConnIds :
                hist.kind = "none" /\ ops < MaxOps /\ Alone(p) /\ RemoveConnection(p, c)
          \/ \E c \in ConnIds, r \in ClientRooms :
                hist.kind = "none" /\ ops < MaxOps /\ Alone(p) /\ JoinRoom(p, c, r)
          \/ \E c \in ConnIds, r \in ClientRooms :
                hist.kind = "none" /\ ops < MaxOps /\ Alone(p) /\ LeaveRoom(p, c, r)
          \/ hist.kind = "join" /\ ops = hist.at /\ Alone(p)
                /\ JoinRoom(p, hist.conn, hist.room)
          \/ hist.kind = "join" /\ ops = hist.at + 1 /\ Alone(p)
                /\ LeaveRoom(p, hist.conn, hist.room)
          \/ hist.kind = "add" /\ ops = hist.at /\ Alone(p)
                /\ AddConnection(p, hist.conn)
          \/ hist.kind = "add" /\ ops = hist.at + 1 /\ Alone(p)
                /\ RemoveConnection(p, hist.conn)
          \/ MgrStep(p)
          \/ Return(p)
    \/ \E c \in ConnIds, r \in ClientRooms : Observe("join", c, r)
    \/ \E c \in ConnIds : Observe("add", c, NoRoom)

RoundSpec == Init /\ [][RoundNext]_vars

\* a step inside a Send or a broadcast
FanStep(p) ==
    \/ send_check(p) \/ send_select(p)
    \/ br_range(p) \/ br_visit(p) \/ br_done(p)
    \/ bu_range(p) \/ bu_visit(p) \/ bu_next(p)

\* the connections of the fan-out scenarios: two tabs of one user
FanConns == {"c1", "c2"}

\* the sessions attach, answer their clients and detach, any task fans out,
\* and the writers drain the queues
FanNext ==
    \/ \E p \in Procs :
          \/ \E c \in FanConns : ops < MaxCalls /\ OwnConn(p, c) /\ AddConnection(p, c)
          \/ \E c \in FanConns : ops < MaxCalls /\ OwnConn(p, c) /\ RemoveConnection(p, c)
          \/ \E c \in FanConns, m \in Msgs :
                ops < MaxCalls /\ OwnConn(p, c) /\ Send(p, c, m)
          \/ \E r \in ClientRooms, m \in Msgs :
                ops < MaxCalls /\ BroadcastToRoom(p, r, m, "")
          \/ \E u \in UserIds, m \in Msgs :
                ops < MaxCalls /\ BroadcastToUser(p, u, m, "")
          \/ AttachStep(p)
          \/ FanStep(p)
          \/ Return(p)
    \/ \E c \in FanConns : WriterStart(c) \/ WriterWrite(c) \/ WriterExit(c)

FanSpec == Init /\ [][FanNext]_vars

\* task q is inside the typing broadcast of sender c
InTyping(q, c) ==
    /\ Busy(q) /\ loc[q].op = "BroadcastToRoom"
    /\ loc[q].msg = TypingFrame(c) /\ loc[q].excl = c

\* as OwnConn, counting the handling of c's client frames
OwnSession(p, c) ==
    OwnConn(p, c) /\ \A q \in Procs \ {p} : ~InTyping(q, c)

\* rooms named by bus events and typing frames: one with members, one unknown
CastRooms == {"brand:b1", "chat:7"}

\* connection ids a bus event names as excluded
Excludes == {"", "c1"}

\* client frame types other than ping, join, leave and typing
OtherTypes == {"message", ""}

\* payloads of the client frames
Payloads == {"x"}

\* the sessions attach, detach and handle typing and other client frames,
\* while the bus subscriber fans events out
CastNext ==
    \E p \in Procs :
        \/ \E c \in ConnIds :
              ops < MaxCasts /\ OwnSession(p, c) /\ AddConnection(p, c)
        \/ \E c \in ConnIds :
              ops < MaxCasts /\ OwnSession(p, c) /\ RemoveConnection(p, c)
        \/ \E r \in CastRooms, x \in Excludes :
              ops < MaxCasts /\ BroadcastToRoom(p, r, "m1", x)
        \/ \E u \in UserIds, x \in Excludes :
              ops < MaxCasts /\ BroadcastToUser(p, u, "m1", x)
        \/ \E c \in ConnIds, r \in CastRooms \cup {""} :
              ops < MaxCasts /\ OwnSession(p, c) /\ Typing(p, c, r)
        \/ \E c \in ConnIds, t \in OtherTypes, r \in {"chat:7"},
              nats \in {"nil", "ok", "failing"} :
              \E pl \in Payloads :
                 ops < MaxCasts /\ OwnSession(p, c) /\ Forward(p, c, t, r, pl, nats)
        \/ AttachStep(p)
        \/ FanStep(p)
        \/ Return(p)

CastSpec == Init /\ [][CastNext]_vars

\* a step inside a BroadcastToRoom
RoomCastStep(p) ==
    \/ send_check(p) \/ send_select(p)
    \/ br_range(p) \/ br_visit(p) \/ br_done(p)

\* number of operations the sessions start in one behaviour with typing frames
MaxTyping == 5

\* the room field of the typing frames: a room with members, or none
TypingRooms == {"brand:b1", ""}

\* the sessions attach, detach and handle the typing frames of their clients
TypingNext ==
    \E p \in Procs :
        \/ \E c \in ConnIds :
              ops < MaxTyping /\ OwnSession(p, c) /\ AddConnection(p, c)
        \/ \E c \in ConnIds :
              ops < MaxTyping /\ OwnSession(p, c) /\ RemoveConnection(p, c)
        \/ \E c \in ConnIds, r \in TypingRooms :
              ops < MaxTyping /\ OwnSession(p, c) /\ Typing(p, c, r)
        \/ AttachStep(p)
        \/ RoomCastStep(p)
        \/ Return(p)

TypingSpec == Init /\ [][TypingNext]_vars

\* the frame a broadcaster issues as its call number n: it names the issuing
\* task and the call
Frame(p, n) == p \o "#" \o ToString(n)

\* the frames the broadcasters can issue
Frames == {Frame(p, n) : p \in Procs, n \in 0..MaxCasts}

\* the task that issued frame f
Issuer(f) == CHOOSE p \in Procs : \E n \in 0..MaxCasts : f = Frame(p, n)

\* the place of frame f in the program order of its issuer
Serial(f) == CHOOSE n \in 0..MaxCasts : f = Frame(Issuer(f), n)

\* the room the ordered broadcasts go to
OrderRoom == "brand:b1"

\* sessions attach and detach, the tasks broadcast frame after frame to one
\* room, and the writers drain the queues onto the sockets
OrderNext ==
    \/ \E p \in Procs :
          \/ \E c \in FanConns : ops < MaxCasts /\ OwnConn(p, c) /\ AddConnection(p, c)
          \/ \E c \in FanConns : ops < MaxCasts /\ OwnConn(p, c) /\ RemoveConnection(p, c)
          \/ ops < MaxCasts /\ BroadcastToRoom(p, OrderRoom, Frame(p, ops), "")
          \/ AttachStep(p)
          \/ RoomCastStep(p)
          \/ Return(p)
    \/ \E c \in FanConns : WriterStart(c) \/ WriterWrite(c) \/ WriterExit(c)

OrderSpec == Init /\ [][OrderNext]_vars

\* number of upgrades and manager operations in one behaviour of the gate
MaxGate == 5

\* the sockets are upgraded with any token under any validator settings; the
\* admitted sessions register, start their writer and detach
GateNext ==
    \/ \E p \in Procs :
          \/ \E c \in FanConns, t \in Tokens, wok \in BOOLEAN :
                ops < MaxGate /\ OwnConn(p, c) /\ handleWebSocket(p, c, t, wok)
          \/ \E c \in FanConns :
                ops < MaxGate /\ OwnConn(p, c) /\ life[c] = "authed" /\ AddConnection(p, c)
          \/ \E c \in FanConns :
                ops < MaxGate /\ OwnConn(p, c) /\ RemoveConnection(p, c)
          \/ AttachStep(p)
          \/ Return(p)
    \/ \E c \in FanConns : WriterStart(c) \/ WriterExit(c)

GateSpec == GateInit /\ [][GateNext]_vars

(* ------ the session: Server.handleWebSocket from upgrade to return ------ *)

\* the room_id query parameter and claims.rooms of each session
ExtraRooms(c) == IF c = "c1" THEN {"chat:7"} ELSE {}

\* the session whose goroutine runs the operation with locals l: a typing
\* broadcast belongs to its sender, any other operation to its connection
Owner(l) == IF l.op = "BroadcastToRoom" THEN l.excl ELSE l.conn

\* the goroutine of session c is inside a call (or has panicked in one)
InCall(c) == \E q \in Procs : pc[q] # "idle" /\ Owner(loc[q]) = c

\* ServerMessage{Type: "connected", Payload: welcomeBytes}
ConnectedFrame(c) == "connected:" \o c

\* {"type":"pong","timestamp":...}
PongFrame == "pong"

\* the goroutine that runs the handler of session c
Task(c) == IF c = "c1" THEN "p1" ELSE "p2"

\* the tokens of the session scenarios: one in order, one with user_id 0
SessTokens ==
    {Token([alg |-> "RS256", exp |-> "future", uid |-> u, iss |-> "attchat"]) :
        u \in {0, 7}}

\* s.roomManager.AddConnection(conn), after the token was accepted
Register(p, c) ==
    /\ life[c] = "authed"
    /\ ~InCall(c)
    /\ AddConnection(p, c)

\* s.roomManager.JoinRoom(connID, roomID) and the loop over claims.Rooms
AutoJoin(p, c, r) ==
    /\ life[c] = "attached"
    /\ stage[c] = "start"
    /\ ~InCall(c)
    /\ r \in ExtraRooms(c) \ Rooms[c]
    /\ JoinRoom(p, c, r)

\* c.WriteJSON(ServerMessage{Type: "connected", ...}): the handler writes the
\* connected frame itself; wok says whether the write reaches the socket, and
\* list notes the frames waiting in the outbound queue at that moment
Welcome(p, c, wok) ==
    /\ pc[p] = "idle"
    /\ life[c] = "attached"
    /\ stage[c] = "start"
    /\ ~InCall(c)
    /\ ExtraRooms(c) \subseteq Rooms[c]
    /\ wire' = [wire EXCEPT ![c] = IF wok THEN Append(@, ConnectedFrame(c)) ELSE @]
    /\ sock' = [sock EXCEPT ![c] = IF wok THEN @ ELSE "broken"]
    /\ stage' = [stage EXCEPT ![c] = "greeted"]
    /\ loc' = [loc EXCEPT ![p] =
                 [IdleLoc EXCEPT !.op = "WriteJSON", !.conn = c, !.list = send[c],
                                 !.ret = "void",
                                 !.path = IF wok THEN "written" ELSE "failed"]]
    /\ pc' = [pc EXCEPT ![p] = "ret"]
    /\ UNCHANGED <<mgrVars, connVars, writer, life, ops, bus, hist, cfg, sub>>

\* a handler that starts the writer as soon as the connection is registered
WriterMayStartAtAttach(c) == life[c] = "attached"

\* go s.writeLoop(conn) comes after the WriteJSON of the connected frame
WriterMayStart(c) == stage[c] = "greeted" /\ ~InCall(c)

\* go s.writeLoop(conn)
StartWriter(c) == WriterMayStart(c) /\ WriterStart(c)

\* a writer that does not take the close of its queue as its end
WriterKeepsWaiting(c) ==
    /\ sendClosed[c]
    /\ send[c] = <<>>
    /\ writer[c] = "running"
    /\ UNCHANGED vars

\* msg, ok := <-conn.SendChannel() with !ok: the channel is closed and empty
WriterSeesClosed(c) ==
    /\ sendClosed[c]
    /\ send[c] = <<>>
    /\ WriterExit(c)

\* s.readLoop(conn) is waiting in ReadMessage
Reading(c) ==
    /\ life[c] = "attached"
    /\ stage[c] = "greeted"
    /\ writer[c] # "none"
    /\ ~InCall(c)

\* a reader that answers a ping by writing the pong to the socket itself
PongDirect(p, c) ==
    /\ pc[p] = "idle"
    /\ Reading(c)
    /\ wire' = [wire EXCEPT ![c] = Append(@, PongFrame)]
    /\ loc' = [loc EXCEPT ![p] =
                 Returned([IdleLoc EXCEPT !.op = "Send", !.conn = c, !.msg = PongFrame],
                          "void", "written")]
    /\ pc' = [pc EXCEPT ![p] = "ret"]
    /\ ops' = ops + 1
    /\ UNCHANGED <<mgrVars, connVars, writer, life, sock, bus, hist, cfg, sub, stage>>

\* case "ping": conn.Send(pong)
Ping(p, c) == Reading(c) /\ Send(p, c, PongFrame)

\* a reader that leaves its loop on a frame it cannot parse
AfterParseErrorBreak(st) == "exiting"

\* json.Unmarshal fails: log and continue with the next frame
AfterParseError(st) == st

\* a frame that is not JSON: counted as received, then skipped
BadFrame(p, c) ==
    /\ pc[p] = "idle"
    /\ Reading(c)
    /\ metrics' = Bump(metrics, "MessagesReceived", 1)
    /\ stage' = [stage EXCEPT ![c] = AfterParseError(@)]
    /\ loc' = [loc EXCEPT ![p] =
                 Returned([IdleLoc EXCEPT !.op = "Unmarshal", !.conn = c],
                          "void", "invalid")]
    /\ pc' = [pc EXCEPT ![p] = "ret"]
    /\ ops' = ops + 1
    /\ UNCHANGED <<connections, userConnections, rooms, buckets, totalConnections,
                   totalRooms, connVars, writer, life, wire, sock, bus, hist, cfg, sub>>

\* conn.Conn.ReadMessage() returns an error (a close frame included): break
ReaderExit(c) ==
    /\ Reading(c)
    /\ stage' = [stage EXCEPT ![c] = "exiting"]
    /\ UNCHANGED <<mgrVars, connVars, writer, life, pc, loc, ops, wire, sock, bus,
                   hist, cfg, sub>>

\* defer func() { if r := recover(); r != nil {...} }(): a panic inside
\* handleClientMessage ends the read loop
Recover(p) ==
    /\ pc[p] = "panicked"
    /\ Owner(loc[p]) \in ConnIds
    /\ stage[Owner(loc[p])] = "greeted"
    /\ stage' = [stage EXCEPT ![Owner(loc[p])] = "exiting"]
    /\ pc' = [pc EXCEPT ![p] = "idle"]
    /\ loc' = [loc EXCEPT ![p] = IdleLoc]
    /\ UNCHANGED <<mgrVars, connVars, writer, life, ops, wire, sock, bus, hist, cfg, sub>>

\* defer s.roomManager.RemoveConnection(connID) runs when the handler returns
DeferredRemove(p, c) ==
    /\ stage[c] = "exiting"
    /\ ~InCall(c)
    /\ RemoveConnection(p, c)

\* a handler that runs its exit code again after RemoveConnection has returned
SessionReturnAgain(p) ==
    /\ pc[p] = "ret"
    /\ pc' = [pc EXCEPT ![p] = "idle"]
    /\ loc' = [loc EXCEPT ![p] = IdleLoc]
    /\ UNCHANGED <<mgrVars, connVars, writer, life, ops, outVars>>

\* the session's goroutine takes the result of a call and goes on; after the
\* deferred RemoveConnection the handler is gone
SessionReturn(p) ==
    /\ pc[p] = "ret"
    /\ pc' = [pc EXCEPT ![p] = "idle"]
    /\ loc' = [loc EXCEPT ![p] = IdleLoc]
    /\ stage' = IF loc[p].op = "RemoveConnection" /\ loc[p].conn \in ConnIds
                  THEN [stage EXCEPT ![loc[p].conn] = "done"]
                  ELSE stage
    /\ UNCHANGED <<mgrVars, connVars, writer, life, ops, wire, sock, bus, hist, cfg, sub>>

\* number of upgrades and client frames in one behaviour of the sessions
MaxSession == 5

\* a step inside a call of a session
SessionStep(p) ==
    \/ AttachStep(p) \/ join_conn(p) \/ RoomCastStep(p)
    \/ Recover(p) \/ SessionReturn(p)

\* the sessions from upgrade to detach: validation, registration, the rooms of
\* the token and the query, the connected frame, writer and reader, the
\* client's frames, and the deferred removal; a writer ends on a failed write
\* or on the closed queue
SessionNext ==
    \/ \E c \in FanConns :
          \/ \E t \in SessTokens, wok \in BOOLEAN :
                ops < MaxSession /\ ~InCall(c) /\ handleWebSocket(Task(c), c, t, wok)
          \/ Register(Task(c), c)
          \/ \E r \in ClientRooms : AutoJoin(Task(c), c, r)
          \/ \E wok \in BOOLEAN : Welcome(Task(c), c, wok)
          \/ ops < MaxSession /\ Ping(Task(c), c)
          \/ \E r \in TypingRooms :
                ops < MaxSession /\ Reading(c) /\ Typing(Task(c), c, r)
          \/ ops < MaxSession /\ BadFrame(Task(c), c)
          \/ DeferredRemove(Task(c), c)
          \/ StartWriter(c) \/ WriterWrite(c) \/ WriterSeesClosed(c) \/ ReaderExit(c)
    \/ \E p \in Procs : SessionStep(p)

SessionSpec == Init /\ [][SessionNext]_vars

\* number of upgrades and typing frames in one behaviour of the detaching
\* sessions
MaxDetach == 5

\* the token of the detaching sessions
GoodToken == Token([alg |-> "RS256", exp |-> "future", uid |-> 7, iss |-> "attchat"])

\* the sessions from upgrade to detach with typing frames as the only client
\* frames
DetachNext ==
    \/ \E c \in FanConns :
          \/ ops < MaxDetach /\ ~InCall(c) /\ handleWebSocket(Task(c), c, GoodToken, TRUE)
          \/ Register(Task(c), c)
          \/ \E r \in ClientRooms : AutoJoin(Task(c), c, r)
          \/ Welcome(Task(c), c, TRUE)
          \/ ops < MaxDetach /\ Reading(c) /\ Typing(Task(c), c, "brand:b1")
          \/ DeferredRemove(Task(c), c)
          \/ StartWriter(c) \/ WriterWrite(c) \/ WriterSeesClosed(c) \/ ReaderExit(c)
    \/ \E p \in Procs : SessionStep(p)

DetachSpec == Init /\ [][DetachNext]_vars

\* the scheduler runs the handler and the writer of every session whenever they
\* can take a step, and a socket write returns, at the latest on its deadline
DetachFairSpec ==
    /\ DetachSpec
    /\ \A c \in FanConns :
          /\ WF_vars(SessionStep(Task(c)) \/ DeferredRemove(Task(c), c))
          /\ WF_vars(WriterWrite(c) \/ WriterSeesClosed(c))

\* the scheduler runs every goroutine that can take a step
FanFairSpec ==
    FanSpec /\ \A p \in Procs : WF_vars(AttachStep(p) \/ FanStep(p) \/ Return(p))

(* ----------- the bus subscriber: Consumer of internal/nats -------------- *)

\* the goroutine of the subscriber of one stream
Subscriber == "p2"

\* the goroutine that runs the sessions' manager calls beside the subscriber
SessionTask == "p1"

\* number of messages the subscriber pulls in one behaviour
MaxPull == 2

\* number of manager calls of the sessions beside the subscriber
MaxBus == 3

\* the envelopes on the bus: room, user_id and exclude_conn_id, each present or
\* empty; chat:7 is a room a session joins, brand:b1 the room of a brand
Envelopes ==
    [room : {"", "chat:7", "brand:b1"}, user_id : {"", "u1"},
     exclude_conn_id : {"", "c1"}]

\* the JSON of an envelope as it is on the bus
Raw(e) == "{" \o e.room \o "|" \o e.user_id \o "|" \o e.exclude_conn_id \o "}"

\* the messages a stream can carry: envelopes, and data that is no JSON
BusMsgs == {"not json"} \cup {Raw(e) : e \in Envelopes}

\* json.Unmarshal(msg.Data, &envelope) succeeds
Decodes(m) == \E e \in Envelopes : Raw(e) = m

\* the decoded envelope
Envelope(m) == CHOOSE e \in Envelopes : Raw(e) = m

\* no message is being worked on
NoMsg == "none"

\* the message the subscriber is working on
Cur == sub.cur

\* msg.Ack() for the message the subscriber is working on
Acked(sb) ==
    [sb EXCEPT !.acks[Len(sb.acks)] = @ + 1, !.at = "idle", !.cur = NoMsg]

\* what a subscriber step leaves alone beside the manager's maps
subRest ==
    <<connections, userConnections, rooms, buckets, totalConnections, totalRooms,
      connVars, writer, life, ops, wire, sock, bus, hist, cfg, stage>>

\* 1. pull the next message
Pull(m) ==
    /\ sub.at = "idle"
    /\ pc[Subscriber] = "idle"
    /\ Len(sub.acks) < MaxPull
    /\ sub' = [at |-> "pulled", cur |-> m, acks |-> Append(sub.acks, 0)]
    /\ UNCHANGED <<subRest, metrics, pc, loc>>

\* 2. decode; on failure ack and drop; 3. count the message
Decode ==
    /\ sub.at = "pulled"
    /\ IF Decodes(Cur)
         THEN /\ sub' = [sub EXCEPT !.at = "decoded"]
              /\ metrics' = Bump(metrics, "MessagesFromNATS", 1)
         ELSE /\ sub' = Acked(sub)
              /\ metrics' = metrics
    /\ UNCHANGED <<subRest, pc, loc>>

\* a router that lets the user_id of an envelope decide before its room
RoomDecidesUnlessUser(e) == e.room # "" /\ e.user_id = ""

\* 4. route: the room decides when there is one
RoomDecides(e) == e.room # ""

\* 4. route: broadcast_room for a room, else broadcast_user for a user
Route ==
    /\ sub.at = "decoded"
    /\ LET e == Envelope(Cur)
       IN  IF RoomDecides(e)
             THEN BroadcastToRoom(Subscriber, e.room, Cur, e.exclude_conn_id)
             ELSE /\ e.user_id # ""
                  /\ BroadcastToUser(Subscriber, e.user_id, Cur, e.exclude_conn_id)

\* 4. neither room nor user: warn and drop; 5. ack; 6. observe the latency
Unrouted ==
    /\ sub.at = "decoded"
    /\ pc[Subscriber] = "idle"
    /\ Envelope(Cur).room = "" /\ Envelope(Cur).user_id = ""
    /\ sub' = Acked(sub)
    /\ metrics' = Bump(metrics, "MessageLatency", 1)
    /\ UNCHANGED <<subRest, pc, loc>>

\* 5. ack after the broadcast has returned; 6. observe the latency
Ack ==
    /\ sub.at = "decoded"
    /\ pc[Subscriber] = "ret"
    /\ sub' = Acked(sub)
    /\ metrics' = Bump(metrics, "MessageLatency", 1)
    /\ pc' = [pc EXCEPT ![Subscriber] = "idle"]
    /\ loc' = [loc EXCEPT ![Subscriber] = IdleLoc]
    /\ UNCHANGED subRest

\* the subscriber pulls, decodes, routes and acks message after message while
\* the sessions register, join a room and detach
BusNext ==
    \/ \E m \in BusMsgs : Pull(m)
    \/ Decode \/ Route \/ Unrouted \/ Ack
    \/ FanStep(Subscriber)
    \/ \E c \in FanConns : ops < MaxBus /\ AddConnection(SessionTask, c)
    \/ ops < MaxBus /\ life["c1"] = "attached" /\ JoinRoom(SessionTask, "c1", "chat:7")
    \/ \E c \in FanConns : ops < MaxBus /\ RemoveConnection(SessionTask, c)
    \/ AttachStep(SessionTask) \/ join_conn(SessionTask) \/ Return(SessionTask)

BusSpec == Init /\ [][BusNext]_vars

(* ---- Server.handleClientMessage: join, leave and typing frames --------- *)

\* {"type":"joined","room":r}
JoinedFrame(r) == "joined:" \o r

\* {"type":"left","room":r}
LeftFrame(r) == "left:" \o r

\* the room field of the client frames: a room, or none
FrameRooms == {"chat:7", ""}

\* number of registrations and client frames in one behaviour of the readers
MaxFrames == 6

\* a handler that passes a frame without room on to the bus publisher
NoRoomForwarded(c, t) ==
    Append(bus, [subject |-> Subject, data |-> Event(c, t, "", "x"), ok |-> TRUE])

\* if msg.Room != "" {...}: with an empty room the case body is skipped and the
\* switch ends; the default case is not entered, so the bus is as it was
NoRoomBus(c, t) == bus

\* a join, leave or typing frame whose room is empty
NoRoomFrame(p, c, t) ==
    /\ pc[p] = "idle"
    /\ life[c] = "attached"
    /\ bus' = NoRoomBus(c, t)
    /\ loc' = [loc EXCEPT ![p] =
                 Returned([IdleLoc EXCEPT !.op = t, !.conn = c, !.room = ""],
                          "void", "noroom")]
    /\ pc' = [pc EXCEPT ![p] = "ret"]
    /\ ops' = ops + 1
    /\ UNCHANGED <<mgrVars, connVars, writer, life, wire, sock, hist, cfg, sub, stage>>

\* case "join": s.roomManager.JoinRoom(conn.ID, msg.Room)
OnJoin(p, c, r) ==
    IF r # "" THEN life[c] = "attached" /\ JoinRoom(p, c, r)
    ELSE NoRoomFrame(p, c, "join")

\* case "leave": s.roomManager.LeaveRoom(conn.ID, msg.Room)
OnLeave(p, c, r) ==
    IF r # "" THEN life[c] = "attached" /\ LeaveRoom(p, c, r)
    ELSE NoRoomFrame(p, c, "leave")

\* case "typing": s.roomManager.BroadcastToRoom(msg.Room, data, conn.ID)
OnTyping(p, c, r) ==
    IF r # "" THEN Typing(p, c, r)
    ELSE NoRoomFrame(p, c, "typing")

\* the ack of the call with locals l
AckFrame(l) == IF l.op = "JoinRoom" THEN JoinedFrame(l.room) ELSE LeftFrame(l.room)

\* conn.Send(joined) after JoinRoom has returned, conn.Send(left) after
\* LeaveRoom has returned
FrameAck(p) ==
    /\ pc[p] = "ret"
    /\ loc[p].op \in {"JoinRoom", "LeaveRoom"}
    /\ LET c == loc[p].conn
           l == [IdleLoc EXCEPT !.op = "Send", !.conn = c, !.msg = AckFrame(loc[p])]
       IN  IF SendSeesClosed(c)
             THEN /\ loc' = [loc EXCEPT ![p] = SendReturned(l, "closed")]
                  /\ pc' = [pc EXCEPT ![p] = AfterSend(l)]
             ELSE /\ loc' = [loc EXCEPT ![p] = l]
                  /\ pc' = [pc EXCEPT ![p] = "send_select"]
    /\ UNCHANGED <<mgrVars, connVars, writer, life, ops, outVars>>

\* the reader goes on to its next frame
FrameReturn(p) ==
    /\ loc[p].op \notin {"JoinRoom", "LeaveRoom"}
    /\ Return(p)

\* two sessions register and their readers handle join, leave and typing
\* frames, each frame to its end before the next
FrameNext ==
    \/ \E c \in FanConns :
          \/ ops < MaxFrames /\ AddConnection(Task(c), c)
          \/ \E r \in FrameRooms :
                /\ ops < MaxFrames
                /\ \/ OnJoin(Task(c), c, r)
                   \/ OnLeave(Task(c), c, r)
                   \/ OnTyping(Task(c), c, r)
    \/ \E p \in Procs :
          \/ add_user_los(p) \/ add_user_store(p) \/ add_stats(p)
          \/ join_conn(p) \/ atr_los(p) \/ atr_store(p)
          \/ leave_conn(p) \/ rfr_load(p) \/ rfr_delete(p) \/ rfr_range(p)
          \/ rfr_visit(p) \/ rfr_rmkey(p)
          \/ RoomCastStep(p) \/ FrameAck(p) \/ FrameReturn(p)

FrameSpec == Init /\ [][FrameNext]_vars

\* number of Manager calls in one behaviour of joins racing with removals
MaxRace == 4

\* no other task is inside AddConnection(c): the connection is handed to other
\* callers only after it is registered
PastAdd(p, c) ==
    \A q \in Procs \ {p} :
        ~(Busy(q) /\ loc[q].conn = c /\ loc[q].op = "AddConnection")

\* the Manager's methods called from any task: JoinRoom and RemoveConnection
\* of one connection may run at the same time
RaceNext ==
    \E p \in Procs :
        \/ \E c \in FanConns : ops < MaxRace /\ OwnConn(p, c) /\ AddConnection(p, c)
        \/ \E c \in FanConns : ops < MaxRace /\ PastAdd(p, c) /\ RemoveConnection(p, c)
        \/ \E c \in FanConns : ops < MaxRace /\ PastAdd(p, c) /\ JoinRoom(p, c, "chat:7")
        \/ AttachStep(p) \/ join_conn(p)
        \/ Return(p)

RaceSpec == Init /\ [][RaceNext]_vars

(* ------------------------------ claims -------------------------------- *)

\* conn c is a member of R[r]
InRoom(c, r) == r \in DOMAIN rooms /\ c \in buckets[rooms[r]]

\* conn c is a member of U[u]
InUser(c, u) == u \in DOMAIN userConnections /\ c \in userConnections[u]

\* task p is inside a broadcast
InBroadcast(p) == Busy(p) /\ loc[p].op \in {"BroadcastToRoom", "BroadcastToUser"}

\* C1: in no interleaving of Send with Close does Send panic: a frame is never
\* sent on the channel once Close has closed it.
SendNeverPanics ==
    \A p \in Procs :
        ~(pc[p] = "panicked"
          /\ loc[p].op \in {"Send", "BroadcastToRoom", "BroadcastToUser"})

\* C2: a Send on a connection whose closed latch is set returns nil at once,
\* whether called directly or from a broadcast: it never reaches the select,
\* and the queue and the latch are as before.
SendOnClosedIsNoop ==
    [][\A p \in Procs :
          /\ (/\ pc[p] = "idle" /\ pc'[p] # "idle"
              /\ loc'[p].op = "Send" /\ closed[loc'[p].conn])
             => /\ pc'[p] = "ret"
                /\ loc'[p].ret = "nil"
                /\ loc'[p].path = "closed"
                /\ send' = send
                /\ closed' = closed /\ sendClosed' = sendClosed
          /\ (/\ pc[p] = "send_check" /\ pc'[p] # "send_check"
              /\ closed[loc[p].conn])
             => /\ pc'[p] \notin {"send_select", "panicked"}
                /\ send' = send
                /\ closed' = closed /\ sendClosed' = sendClosed]_vars

\* C2 happens: a direct Send on a closed connection has returned
SendOnClosedReturned ==
    \E p \in Procs :
        /\ pc[p] = "ret" /\ loc[p].op = "Send" /\ loc[p].path = "closed"
        /\ closed[loc[p].conn]

\* C3: a Send that finds the queue full returns a result that differs from the
\* one of an accepted frame, leaves the queue as it was, leaves the connection
\* attached and open, and adds one to a slow-consumer counter.
FullQueueDropReported ==
    [][\A p \in Procs :
          LET c == loc[p].conn
          IN  (/\ pc[p] = "send_select" /\ pc'[p] # "send_select"
               /\ loc[p].op = "Send"
               /\ ~sendClosed[c] /\ Len(send[c]) = QueueCap)
              => /\ loc'[p].ret # SendResult("accepted")
                 /\ send'[c] = send[c]
                 /\ c \in connections' /\ ~closed'[c]
                 /\ \E n \in MetricNames : metrics'[n] = metrics[n] + 1]_vars

\* C4: a broadcast never waits for a recipient: whatever the queues hold and
\* whether or not a writer drains them, a task inside BroadcastToRoom or
\* BroadcastToUser always has a step it can take, and under a fair scheduler
\* it leaves the broadcast (by returning, or by the panic of C1).
FanoutNeverWaits ==
    /\ [](\A p \in Procs : InBroadcast(p) => ENABLED FanStep(p))
    /\ \A p \in Procs : InBroadcast(p) ~> ~InBroadcast(p)

\* C4 happens: BroadcastToRoom has returned although a member's queue was full
\* of other frames with no writer draining it
FanoutPastFullQueue ==
    \E p \in Procs, c \in FanConns :
        /\ pc[p] = "ret" /\ loc[p].op = "BroadcastToRoom" /\ loc[p].path = "sent"
        /\ InRoom(c, loc[p].room)
        /\ ~closed[c] /\ writer[c] = "none"
        /\ Len(send[c]) = QueueCap
        /\ \A i \in 1..Len(send[c]) : send[c][i] # loc[p].msg

\* C5: with the operations run one at a time, between operations every
\* connection of C is in U under its user and in R under each of its rooms.
IndexConsistent ==
    Quiescent =>
        \A c \in connections :
            /\ InUser(c, UserID(c))
            /\ \A r \in Rooms[c] : InRoom(c, r)

\* C5 happens: a registered connection has joined a room of its client's choice
SerialJoinedIndexed ==
    /\ Quiescent
    /\ \E c \in connections :
         life[c] = "attached" /\ Rooms[c] \ joinDefaultRooms(c) # {}

\* C6: under interleaving of addToRoom with removeFromRoom, once the operations
\* have returned an attached connection is a member of R[r] for every room r
\* it holds: a joiner is never left in a bucket that R no longer maps.
JoinerNeverOrphaned ==
    Quiescent =>
        \A c \in ConnIds : life[c] = "attached" =>
            \A r \in Rooms[c] : InRoom(c, r)

\* C7: in every quiescent state of the interleaved operations the rooms gauge
\* equals the number of keys of R, is not negative, and the current-connections
\* gauge equals the size of C.
GaugesAgree ==
    Quiescent =>
        /\ totalRooms = Cardinality(DOMAIN rooms)
        /\ totalRooms >= 0
        /\ metrics["RoomsTotal"] = Cardinality(DOMAIN rooms)
        /\ metrics["ConnectionsCurrent"] = Cardinality(connections)

\* C8: once the operations have returned, no key of R maps to an empty set.
NoEmptyRoom == Quiescent => \A r \in DOMAIN rooms : buckets[rooms[r]] # {}

\* C8 happens: the last member of a room has been removed and other rooms remain
LastMemberLeft ==
    /\ Quiescent
    /\ rooms # EmptyMap
    /\ \E c \in ConnIds :
         life[c] = "removed" /\ \E r \in Rooms[c] : r \notin DOMAIN rooms

\* C9: once RemoveConnection(c) has returned, c is in no index (C, any U[u],
\* any R[r], rooms joined after AddConnection included) and it is closed.
RemovedIsGone ==
    \A c \in ConnIds :
        life[c] = "removed" =>
           /\ c \notin connections
           /\ \A u \in DOMAIN userConnections : c \notin userConnections[u]
           /\ \A r \in DOMAIN rooms : c \notin buckets[rooms[r]]
           /\ closed[c] /\ sendClosed[c]

\* C9 happens: a connection that joined a room after AddConnection is removed
RemovedAfterJoin ==
    \E c \in ConnIds :
        /\ life[c] = "removed"
        /\ Rooms[c] \ joinDefaultRooms(c) # {}

\* C10: a RemoveConnection repeated for one id, after the first or while it
\* runs, has no effect of its own: once the calls have returned the
\* current-connections gauge counts the attached connections (it went down
\* once per connection), and no call failed closing the channel again.
RemoveIdempotent ==
    /\ \A p \in Procs : ~(pc[p] = "panicked" /\ loc[p].op = "RemoveConnection")
    /\ Quiescent =>
         /\ metrics["ConnectionsCurrent"] =
               Cardinality({c \in ConnIds : life[c] = "attached"})
         /\ metrics["ConnectionsCurrent"] = Cardinality(connections)

\* the observed round trip has run to its end
RoundDone(k) ==
    /\ hist.kind = k
    /\ ops = hist.at + 2
    /\ Quiescent

\* C11: JoinRoom(c, r) followed by LeaveRoom(c, r) on a registered connection
\* leaves R and c.Rooms as they were before, also when c was a member of r
\* already.
JoinLeaveRoundTrip ==
    RoundDone("join") => /\ RView = hist.R
                         /\ Rooms[hist.conn] = hist.Rooms

\* C12: AddConnection(c) followed by RemoveConnection(c) on a connection not
\* yet registered returns C, U (its key set included) and R and the rooms and
\* current-connections gauges to what they were before.
AddRemoveRoundTrip ==
    RoundDone("add") => /\ connections = hist.C
                        /\ userConnections = hist.U
                        /\ RView = hist.R
                        /\ metrics["RoomsTotal"] = hist.roomsGauge
                        /\ metrics["ConnectionsCurrent"] = hist.connsGauge

\* the members now of the room or user the broadcast with locals l addresses
Members(l) ==
    IF l.op = "BroadcastToRoom"
      THEN (IF l.room \in DOMAIN rooms THEN buckets[rooms[l.room]] ELSE {})
      ELSE (IF l.user \in DOMAIN userConnections THEN userConnections[l.user] ELSE {})

\* c is a connection of the room or user the broadcast addresses
Addressed(c, l) ==
    /\ life[c] # "new"
    /\ IF l.op = "BroadcastToRoom" THEN l.room \in Rooms[c] ELSE UserID(c) = l.user

\* what C13 asks of a broadcast with locals l that has come to its end
RecipientsOf(l) ==
    /\ \A c \in ConnIds : l.offered[c] <= 1
    /\ \A c \in l.pre \cap Members(l) : c # l.excl => l.offered[c] = 1
    /\ \A c \in ConnIds : l.offered[c] > 0 => c # l.excl /\ Addressed(c, l)
    /\ l.path = "absent" =>
          /\ l.count = 0 /\ l.acc = 0
          /\ \A c \in ConnIds : l.offered[c] = 0

\* C13: when BroadcastToRoom or BroadcastToUser has ended, it has called Send
\* exactly once on every connection that was a member from the start of the
\* call to its end and is not the excluded one, on no connection that is not
\* of that room or user, and never on the excluded one; for an unknown room or
\* user it returns 0 and calls no Send.
FanoutRecipients ==
    \A p \in Procs :
        (pc[p] \in {"ret", "panicked"}
         /\ loc[p].op \in {"BroadcastToRoom", "BroadcastToUser"})
        => RecipientsOf(loc[p])

\* C14: the number a broadcast returns is the number of recipients whose queue
\* accepted the frame: a recipient whose queue was full, or that was closed,
\* is not counted.
ReturnCountsAccepted ==
    \A p \in Procs :
        (pc[p] = "ret" /\ loc[p].op \in {"BroadcastToRoom", "BroadcastToUser"})
        => loc[p].count = loc[p].acc

\* the frames of conn c in the order they were accepted: those the writer has
\* put on the socket, then those still in the outbound queue
Accepted(c) == wire[c] \o send[c]

TypingOf(l, c) ==
    l.op = "BroadcastToRoom" /\ l.msg = TypingFrame(c) /\ l.excl = c

\* C16: when the handling of a typing frame with a room has ended, Send has
\* been called once on every other connection that was a member of the room
\* from start to end and never on the sending connection, and nothing has been
\* published to the bus
TypingReachesOthers ==
    \A p \in Procs, c \in ConnIds :
        (pc[p] \in {"ret", "panicked"} /\ TypingOf(loc[p], c))
        => /\ \A k \in (loc[p].pre \cap Members(loc[p])) \ {c} : loc[p].offered[k] = 1
           /\ loc[p].offered[c] = 0
           /\ bus = <<>>

\* what the bus holds after one more publish for the handled frame with locals
\* l: subject CHAT.events, the frame's type, room and payload, the connection's
\* user and brand, and the sender as the excluded connection
PublishedOnce(b, l) ==
    \E pl \in Payloads :
        b = Append(bus, [subject |-> "CHAT.events",
                         data |-> [type |-> l.msg, room |-> l.room, payload |-> pl,
                                   user_id |-> UserID(l.conn),
                                   brand_id |-> BrandID(l.conn),
                                   exclude_conn_id |-> l.conn],
                         ok |-> (l.path = "ok")])

\* C17: handling a client frame whose type is not ping, join, leave or typing
\* makes exactly one publish to CHAT.events with the frame's type, room and
\* payload, the connection's user_id and brand_id and the sender as
\* exclude_conn_id (none when there is no publisher); it puts nothing in any
\* outbound queue or on any socket and, also when the publish fails, leaves
\* the session attached and registered as it was
ForwardPublishesOnce ==
    [][\A p \in Procs :
          (pc[p] = "idle" /\ pc'[p] = "ret" /\ loc'[p].op = "Forward")
          => /\ loc'[p].msg \notin {"ping", "join", "leave", "typing"}
             /\ IF loc'[p].path = "nil" THEN bus' = bus
                                        ELSE PublishedOnce(bus', loc'[p])
             /\ send' = send /\ wire' = wire /\ sock' = sock
             /\ life' = life /\ connections' = connections
             /\ closed' = closed /\ sendClosed' = sendClosed]_vars

\* C17, its case: a frame was handled whose publish failed, and its session is
\* still attached
ForwardFailedStaysAttached ==
    \E p \in Procs :
        /\ pc[p] = "ret" /\ loc[p].op = "Forward" /\ loc[p].path = "failing"
        /\ life[loc[p].conn] = "attached" /\ loc[p].conn \in connections
        /\ \E i \in 1..Len(bus) : ~bus[i].ok /\ bus[i].data.exclude_conn_id = loc[p].conn

\* C18: once the writer of a registered connection has exited on a failed
\* write or ping, the connection is eventually removed from the manager and
\* its outbound channel closed, whether or not the reader ever sees an error
WriterErrorDetaches ==
    \A c \in FanConns :
        (writer[c] = "exited" /\ c \in connections)
            ~> (c \notin connections /\ sendClosed[c])

\* C19: every Close on a connection, the first or a repeated one, from one
\* task or from several, returns normally with the closed latch set and the
\* outbound channel closed; a Close on a connection already closed changes
\* nothing, so the channel is never closed a second time
CloseIdempotent ==
    [][\A p \in Procs :
          (pc[p] = "rm_close" /\ pc'[p] # "rm_close")
          => /\ pc'[p] = "rm_stats"
             /\ closed'[loc[p].conn] /\ sendClosed'[loc[p].conn]
             /\ sendClosed[loc[p].conn] => closed[loc[p].conn]
             /\ closed[loc[p].conn] => (closed' = closed /\ sendClosed' = sendClosed)
             /\ \A c \in ConnIds \ {loc[p].conn} :
                   closed'[c] = closed[c] /\ sendClosed'[c] = sendClosed[c]]_vars

\* C19, its case: two tasks have each called Close on the same connection
ClosedTwice ==
    \E p, q \in Procs :
        /\ p # q
        /\ pc[p] = "rm_stats" /\ pc[q] = "rm_stats"
        /\ loc[p].conn = loc[q].conn
        /\ closed[loc[p].conn] /\ sendClosed[loc[p].conn]

\* tokens that fail validation under every setting of the validator
BadTokens ==
    {"", "garbage"}
      \cup {Token(f) : f \in {g \in TokenClaims :
                                 g.alg # "RS256" \/ g.exp = "past" \/ g.uid = 0}}

\* C20: an upgrade whose token fails validation (none, unparsable, expired,
\* zero user_id, or an issuer the validator does not allow) is refused: the
\* handler writes the one AUTH_FAILED error frame and nothing else, closes the
\* socket, adds 1 to the auth-failure counter and changes no other counter or
\* gauge, and leaves C, U, R untouched; no connection of a refused session is
\* ever registered and no writer is ever started for it
RefusedUpgrade ==
    /\ [][\A p \in Procs :
            (pc[p] = "idle" /\ pc'[p] = "ret" /\ loc'[p].op = "handleWebSocket")
            => LET l == loc'[p]
                   c == l.conn
               IN  /\ l.msg \in BadTokens => l.path # "ok"
                   /\ l.path # "ok" =>
                        /\ life'[c] = "refused"
                        /\ l.count = 1
                        /\ wire[c] = <<>>
                        /\ wire'[c] = IF l.acc = 1 THEN <<AuthFailedFrame>> ELSE <<>>
                        /\ \A k \in ConnIds \ {c} : wire'[k] = wire[k] /\ sock'[k] = sock[k]
                        /\ sock'[c] = "closed"
                        /\ metrics' = [metrics EXCEPT !["AuthFailure"] = @ + 1]
                        /\ connections' = connections
                        /\ userConnections' = userConnections
                        /\ RView' = RView /\ Rooms' = Rooms
                        /\ totalConnections' = totalConnections
                        /\ totalRooms' = totalRooms
                        /\ writer' = writer /\ send' = send]_vars
    /\ [](\A c \in ConnIds :
            life[c] = "refused"
            => /\ c \notin connections
               /\ \A u \in DOMAIN userConnections : c \notin userConnections[u]
               /\ \A r \in DOMAIN RView : c \notin RView[r]
               /\ writer[c] = "none"
               /\ sock[c] = "closed"
               /\ Len(wire[c]) <= 1 /\ send[c] = <<>>
               /\ ~closed[c] /\ ~sendClosed[c])

\* C20, its case: a session was refused for a zero user_id while another
\* session is registered, and the error frame is on the refused socket
RefusedBesideAttached ==
    \E p \in Procs, c, k \in ConnIds :
        /\ pc[p] = "ret" /\ loc[p].op = "handleWebSocket"
        /\ loc[p].conn = c /\ loc[p].path = "ErrMissingUserID"
        /\ life[c] = "refused" /\ wire[c] = <<AuthFailedFrame>>
        /\ life[k] = "attached" /\ writer[k] = "running"
        /\ metrics["AuthFailure"] = 1 /\ metrics["AuthSuccess"] = 1

\* a token signed with the RSA key, not expired, whose user_id claim is 0
ZeroUserTokens ==
    {Token(f) : f \in {g \in TokenClaims :
                          g.alg = "RS256" /\ g.exp = "future" /\ g.uid = 0}}

\* C23: every token whose user_id claim is missing or 0 is rejected, and when
\* its signature and expiration are in order the error is ErrMissingUserID
\* whatever the issuer allow-list says of its issuer; a session is admitted
\* only with a token whose user_id is not 0
ZeroUserRejected ==
    [][\A p \in Procs :
          (pc[p] = "idle" /\ pc'[p] = "ret" /\ loc'[p].op = "handleWebSocket")
          => LET l == loc'[p]
             IN  /\ l.msg \in ZeroUserTokens
                      => l.path = "ErrMissingUserID" /\ life'[l.conn] = "refused"
                 /\ (WellFormed(l.msg) /\ Decoded(l.msg).uid = 0) => l.path # "ok"
                 /\ life'[l.conn] = "authed"
                      => WellFormed(l.msg) /\ Decoded(l.msg).uid # 0]_vars

\* C23, its case: under an allow-list a token with user_id 0 and a foreign
\* issuer was presented and refused for its user_id
ZeroUserBeforeIssuer ==
    \E p \in Procs :
        /\ pc[p] = "ret" /\ loc[p].op = "handleWebSocket"
        /\ loc[p].msg = Token([alg |-> "RS256", exp |-> "future", uid |-> 0,
                               iss |-> "other"])
        /\ cfg.allowedIssuers = {"attchat"}
        /\ loc[p].path = "ErrMissingUserID"
        /\ life[loc[p].conn] = "refused"

ConnectionsWithinLimit == Cardinality(connections) <= MaxConnections

\* C30: a correctly signed token whose exp is past is rejected with
\* ErrExpiredToken when jwt.validate_exp is set; when it is not set, expiry
\* alone causes no rejection: such a token with a non-zero user_id and an
\* allowed issuer is accepted
ExpirationFollowsFlag ==
    [][\A p \in Procs :
          (pc[p] = "idle" /\ pc'[p] = "ret" /\ loc'[p].op = "handleWebSocket"
           /\ WellFormed(loc'[p].msg)
           /\ Decoded(loc'[p].msg).alg = "RS256"
           /\ Decoded(loc'[p].msg).exp = "past")
          => LET l == loc'[p]
                 f == Decoded(l.msg)
             IN  IF cfg.validateExp
                   THEN l.path = "ErrExpiredToken"
                   ELSE (f.uid # 0 /\ (cfg.allowedIssuers = {}
                                         \/ f.iss \in cfg.allowedIssuers))
                           => l.path = "ok"]_vars

\* C21: on the socket of every admitted session the connected frame comes
\* first: whatever the broadcasters put in the connection's queue between its
\* registration and the handler's write, no frame is written before it
ConnectedFrameFirst ==
    \A c \in ConnIds :
        /\ (life[c] # "refused" /\ wire[c] # <<>>) => Head(wire[c]) = ConnectedFrame(c)
        /\ \A i \in 2..Len(wire[c]) : wire[c][i] # ConnectedFrame(c)

\* C21, its case: the handler wrote the connected frame while a broadcast
\* frame was already waiting in the connection's queue
ConnectedPastWaiting ==
    \E p \in Procs :
        /\ pc[p] = "ret" /\ loc[p].op = "WriteJSON" /\ loc[p].path = "written"
        /\ loc[p].list # <<>>
        /\ send[loc[p].conn] # <<>>
        /\ wire[loc[p].conn] = <<ConnectedFrame(loc[p].conn)>>

\* the rooms of a session at its connected frame: those of NewConnection, the
\* rooms of the token and the room_id of the query
AutoRooms(c) == joinDefaultRooms(c) \cup ExtraRooms(c)

\* C22: once the connected frame of a session has been sent, and as long as the
\* session is attached and reading, its room set is exactly user:{user_id},
\* brand:{brand_id} for a brand, the folder rooms for cskh, the rooms of the
\* token and the room_id of the query, and it is a member of R[r] for exactly
\* these rooms.
AutoRoomsAtConnected ==
    \A c \in ConnIds :
        (life[c] = "attached" /\ stage[c] = "greeted" /\ wire[c] # <<>>) =>
            /\ Rooms[c] = AutoRooms(c)
            /\ \A r \in RoomNames : InRoom(c, r) <=> r \in AutoRooms(c)

\* C29: a client frame that is not JSON is skipped without effect: over the
\* step that reads it the session stays attached with its reader in the loop,
\* C, U, R and the room sets do not change, nothing is enqueued or written for
\* any session, no queue is closed and nothing is published to the bus.
ParseErrorSkipped ==
    [][\A p \in Procs :
          (pc[p] = "idle" /\ pc'[p] = "ret" /\ loc'[p].op = "Unmarshal") =>
              /\ life'[loc'[p].conn] = "attached"
              /\ stage'[loc'[p].conn] = "greeted"
              /\ writer'[loc'[p].conn] = writer[loc'[p].conn]
              /\ UNCHANGED <<connections, userConnections, rooms, buckets, Rooms,
                             send, sendClosed, closed, wire, bus>>]_vars

\* C29 happens: the reader of a session with a frame waiting in its queue has
\* skipped an unparsable frame and is back in its loop
ParseErrorSeen ==
    \E p \in Procs :
        /\ pc[p] = "ret" /\ loc[p].op = "Unmarshal"
        /\ life[loc[p].conn] = "attached"
        /\ stage[loc[p].conn] = "greeted"
        /\ send[loc[p].conn] # <<>>

\* C28: at most one task writes to a socket at any time. Every step that puts a
\* frame on the wire of a session is either a write of its handler (the error
\* frame, the connected frame) made while no writer exists for the session, or
\* the write of its running writer of the frame at the head of its queue, in
\* which no other task takes part; the writer exists only after the connected
\* frame, and never for a refused session.
SingleSocketWriter ==
    /\ [][\A c \in ConnIds :
             wire'[c] # wire[c] =>
                \/ /\ writer[c] = "none" /\ writer'[c] = "none"
                   /\ pc[Task(c)] = "idle" /\ pc'[Task(c)] = "ret"
                   /\ loc'[Task(c)].conn = c
                   /\ loc'[Task(c)].op \in {"handleWebSocket", "WriteJSON"}
                \/ /\ writer[c] = "running"
                   /\ pc' = pc
                   /\ send[c] # <<>> /\ send'[c] = Tail(send[c])
                   /\ wire'[c] = Append(wire[c], Head(send[c]))]_vars
    /\ [](\A c \in ConnIds :
             writer[c] # "none" => (stage[c] # "start" /\ life[c] # "refused"))

\* C28 happens: the writer of a session has written a queued frame after the
\* handler's connected frame while the reader's next frame is being handled
WriterAfterHandler ==
    \E c \in ConnIds :
        /\ Len(wire[c]) >= 2
        /\ Head(wire[c]) = ConnectedFrame(c)
        /\ writer[c] = "running"
        /\ InCall(c)

\* task p starts RemoveConnection(c) in this step
RemovalStarts(p, c) ==
    /\ pc[p] = "idle" /\ pc'[p] # "idle"
    /\ loc'[p].op = "RemoveConnection" /\ loc'[p].conn = c

\* C26: RemoveConnection is invoked once per attached session and never for a
\* refused one, and the queue is closed once. Every invocation is the deferred
\* call of a session whose reader has left its loop (on a read error, a close
\* frame or a recovered panic), the session is still registered and no other
\* invocation for it is running or has run; the call never fails on a channel
\* closed before; once it has returned the handler is gone for good with the
\* connection removed and its queue closed; a queue is closed only inside that
\* call; a refused session is never registered, removed or closed.
RemovedExactlyOnce ==
    /\ [][\A c \in ConnIds :
             /\ \A p \in Procs :
                   RemovalStarts(p, c) =>
                      /\ p = Task(c)
                      /\ stage[c] = "exiting" /\ life[c] = "attached"
                      /\ c \in connections /\ ~loc'[p].dup
                      /\ ~closed[c] /\ ~sendClosed[c]
             /\ (sendClosed'[c] /\ ~sendClosed[c]) =>
                   (pc[Task(c)] = "rm_close" /\ loc[Task(c)].conn = c)
             /\ stage[c] = "done" => stage'[c] = "done"
             /\ sendClosed[c] => sendClosed'[c]]_vars
    /\ [](\A c \in ConnIds :
             /\ stage[c] = "done" =>
                   (life[c] = "removed" /\ c \notin connections /\ sendClosed[c])
             /\ life[c] = "refused" =>
                   (stage[c] = "start" /\ ~closed[c] /\ ~sendClosed[c])
             /\ \A p \in Procs :
                   ~(pc[p] = "panicked" /\ loc[p].op = "RemoveConnection"))

\* C26 happens: the handler of one session has returned through its deferred
\* RemoveConnection while the upgrade of the other one was refused
RemovedBesideRefused ==
    \E c, d \in ConnIds :
        /\ stage[c] = "done" /\ life[c] = "removed" /\ sendClosed[c]
        /\ life[d] = "refused"

\* connection c is in no index of the manager
Released(c) ==
    /\ c \notin connections
    /\ \A u \in DOMAIN userConnections : c \notin userConnections[u]
    /\ \A r \in DOMAIN rooms : c \notin buckets[rooms[r]]

\* C27: whenever the reader of an attached session has terminated (on a read
\* error, a close frame or a recovered panic), then eventually the connection
\* is absent from C, U and R, its outbound queue is closed and its writer has
\* terminated, with handler and writer scheduled fairly and socket writes
\* returning.
DetachCompletes ==
    \A c \in ConnIds :
        (stage[c] = "exiting") ~>
            (Released(c) /\ sendClosed[c] /\ writer[c] = "exited")

\* C27 happens: a session whose reader ended is detached with its writer gone,
\* after the writer took frames from the queue that the detach had closed
DetachedWithWriterGone ==
    \E c \in ConnIds :
        /\ stage[c] = "done"
        /\ Released(c) /\ sendClosed[c] /\ writer[c] = "exited"
        /\ wire[c] # <<>> /\ send[c] = <<>>

\* connection k is a target of envelope e: it holds the room of e, or, for an
\* envelope without room, it belongs to the user of e
RoutedTo(e, k) ==
    IF e.room # "" THEN e.room \in Rooms[k]
    ELSE e.user_id # "" /\ UserID(k) = e.user_id

\* C31: routing precedence of the bus subscriber. A frame is enqueued only for
\* a decoded envelope, it is the raw envelope, and it goes to a connection
\* holding the envelope's room when there is a room (also when user_id is set),
\* else to a connection of the envelope's user, never to the connection that
\* exclude_conn_id names; the call the subscriber makes is the room broadcast
\* for a room, else the user broadcast, with the envelope's arguments, and
\* inside it no other connection is offered the frame; an envelope without
\* room and user makes no call.
BusRoutingPrecedence ==
    /\ [][\A k \in ConnIds :
             send'[k] # send[k] =>
                /\ sub.at = "decoded"
                /\ send'[k] = Append(send[k], Cur)
                /\ RoutedTo(Envelope(Cur), k)
                /\ k # Envelope(Cur).exclude_conn_id]_vars
    /\ [](pc[Subscriber] # "idle" =>
             /\ sub.at = "decoded"
             /\ LET e == Envelope(Cur)
                    l == loc[Subscriber]
                IN  /\ l.msg = Cur /\ l.excl = e.exclude_conn_id
                    /\ IF e.room # ""
                         THEN l.op = "BroadcastToRoom" /\ l.room = e.room
                         ELSE /\ e.user_id # ""
                              /\ l.op = "BroadcastToUser" /\ l.user = e.user_id
                    /\ \A k \in ConnIds :
                          l.offered[k] > 0 =>
                             (RoutedTo(e, k) /\ k # e.exclude_conn_id))

\* C31 happens: an envelope naming room chat:7 and user u1 has been broadcast:
\* c1, in the room, has it in its queue and c2, another connection of u1
\* outside the room, has nothing
RoomWinsOverUser ==
    /\ pc[Subscriber] = "ret"
    /\ sub.at = "decoded"
    /\ Envelope(Cur).room = "chat:7" /\ Envelope(Cur).user_id = "u1"
    /\ send["c1"] = <<Cur>>
    /\ life["c2"] = "attached" /\ send["c2"] = <<>>

\* C32: every message the subscriber pulled is acknowledged exactly once,
\* whatever happened to it. No message is acknowledged twice, a message of a
\* finished iteration has its one ack (whether it failed to decode, named no
\* room and no user, found no members, or was dropped on full queues), and no
\* iteration is abandoned before its ack.
PulledAckedOnce ==
    /\ \A i \in 1..Len(sub.acks) : sub.acks[i] <= 1
    /\ \A i \in 1..(Len(sub.acks) - 1) : sub.acks[i] = 1
    /\ sub.at = "idle" => \A i \in 1..Len(sub.acks) : sub.acks[i] = 1
    /\ pc[Subscriber] # "panicked"

\* the reader of c is inside JoinRoom or LeaveRoom for room r: the call has not
\* returned and its ack is not yet enqueued
AckPending(c, r) ==
    /\ Busy(Task(c))
    /\ loc[Task(c)].op \in {"JoinRoom", "LeaveRoom"}
    /\ loc[Task(c)].conn = c /\ loc[Task(c)].room = r

\* C33: join and leave acks are ordered after the membership change. From the
\* return of JoinRoom, so before the joined ack is enqueued, to the next frame
\* for the room the connection is a member of R[room], and every broadcast to
\* the room that starts then finds it among the members; from the return of
\* LeaveRoom, so before the left ack is enqueued, it is not a member, and no
\* broadcast to the room offers it a frame unless it holds the room or its
\* leave is still running.
JoinLeaveAckOrder ==
    /\ [](\A c \in FanConns : \A r \in FrameRooms \ {""} :
             (life[c] = "attached" /\ ~AckPending(c, r)) =>
                (r \in Rooms[c] <=> InRoom(c, r)))
    /\ [][\A p \in Procs :
             /\ (pc[p] = "idle" /\ pc'[p] # "idle" /\ loc'[p].op = "BroadcastToRoom") =>
                   \A c \in FanConns :
                      (life[c] = "attached" /\ loc'[p].room \in Rooms[c]
                         /\ ~AckPending(c, loc'[p].room)) => c \in loc'[p].pre
             /\ \A k \in ConnIds :
                   (loc'[p].op = "BroadcastToRoom" /\ loc[p].op = "BroadcastToRoom"
                      /\ loc'[p].offered[k] > loc[p].offered[k]) =>
                         (loc[p].room \in Rooms[k] \/ AckPending(k, loc[p].room))]_vars

\* C34: no stale members. Once the operations have returned, every connection
\* found in a bucket of R or of U is registered in C and is not closed, also
\* after a JoinRoom that raced with RemoveConnection of the same connection;
\* and a JoinRoom for a connection that is not in C returns at once and changes
\* nothing.
NoStaleMembers ==
    /\ [](Quiescent =>
             \A c \in ConnIds :
                ((\E r \in DOMAIN rooms : c \in buckets[rooms[r]])
                    \/ (\E u \in DOMAIN userConnections : c \in userConnections[u]))
                   => (c \in connections /\ ~closed[c]))
    /\ [][\A p \in Procs :
             (pc[p] = "idle" /\ pc'[p] # "idle" /\ loc'[p].op = "JoinRoom"
                /\ loc'[p].conn \notin connections) =>
                   /\ pc'[p] = "ret"
                   /\ UNCHANGED <<mgrVars, connVars>>]_vars

\* C35: a join, leave or typing frame without room has no effect. Over the step
\* that handles it the room sets and C, U and R do not change, nothing is
\* enqueued for or written to any connection, nothing is published to the bus,
\* and the reader is back in its loop without a call to the manager.
NoRoomNoEffect ==
    [][\A p \in Procs :
          (pc[p] = "idle" /\ pc'[p] # "idle"
             /\ loc'[p].op \in {"join", "leave", "typing"}) =>
                /\ loc'[p].room = "" /\ pc'[p] = "ret"
                /\ UNCHANGED <<mgrVars, connVars, writer, life, wire, bus>>]_vars

\* C35 happens: a typing frame without room was handled for a session while
\* the other session, a member of its brand room, has an empty queue
NoRoomTypingSeen ==
    \E p \in Procs :
        /\ pc[p] = "ret" /\ loc[p].op = "typing" /\ loc[p].path = "noroom"
        /\ \E d \in FanConns \ {loc[p].conn} :
              /\ life[d] = "attached" /\ InRoom(d, "brand:b1")
              /\ send[d] = <<>>
        /\ bus = <<>>

\* the reader of c has come back from JoinRoom(c, r) and has not yet enqueued
\* the joined ack
JoinedBy(c, r) ==
    /\ pc[Task(c)] = "ret" /\ loc[Task(c)].op = "JoinRoom"
    /\ loc[Task(c)].conn = c /\ loc[Task(c)].room = r

\* C36: typing and join are not gated by membership. A join frame with a room
\* makes the connection a member of the room, in conn.Rooms and in R, whether
\* or not the room is among the rooms the connection was given from its token;
\* a typing frame with a room starts a broadcast that addresses every member
\* of the room, whether or not the sender holds the room, and its traversal
\* calls Send on every member it visits other than the sender.
JoinTypingNotGated ==
    /\ [](\A c \in FanConns : \A r \in FrameRooms \ {""} :
             JoinedBy(c, r) => (r \in Rooms[c] /\ InRoom(c, r)))
    /\ [][\A p \in Procs : \A c \in FanConns :
             /\ (pc[p] = "idle" /\ pc'[p] # "idle" /\ TypingOf(loc'[p], c)) =>
                   loc'[p].pre = Members(loc'[p])
             /\ (pc[p] = "br_range" /\ pc'[p] # "br_range" /\ TypingOf(loc[p], c)) =>
                   loc'[p].snap = buckets[loc[p].ref]
             /\ (pc[p] = "br_visit" /\ pc'[p] # "br_visit" /\ TypingOf(loc[p], c)) =>
                   \A k \in loc[p].snap \ loc'[p].snap :
                      (k \in buckets[loc[p].ref] /\ k # c) =>
                         loc'[p].offered[k] = loc[p].offered[k] + 1]_vars

====
